---- MODULE Spec2Model ----
(***************************************************************************)
(* Model of the Intel e1000e driver of MontaukOS                           *)
(* (src/kernel/src/Drivers/Net/E1000E.cpp and E1000E.hpp).                 *)
(*                                                                         *)
(* The driver's statics are the variables g_*; the device is `regs`, the   *)
(* PHY registers, the PCI configuration space and the behaviour profile    *)
(* `dev` of the device under the driver; the callers (the kernel's boot    *)
(* code, the network stack and its RX callback) and the hardware engine    *)
(* are the environment.  A 32-bit register value is the set of its bit     *)
(* positions that are set; ring indices are numbers.                       *)
(***************************************************************************)
EXTENDS Integers, Sequences, FiniteSets, TLC

(* ---------------- bounds of the model ---------------- *)
\* accepted SendPacket calls of one behaviour
MaxSends == 34
\* SendPacket calls accepted from inside the RX callback, in one behaviour
MaxCbSends == 1
\* frames the hardware receives in one behaviour
MaxFrames == 3
\* nesting depth of drains (a drain, the callback it runs, the drain that calls)
MaxDepth == 3
\* calls of Initialize in one behaviour
MaxInitCalls == 2

\* frames the hardware offers in one behaviour, when the ring is to be filled
MaxRingFrames == 33
\* SendPacket calls a caller thread makes statement by statement, in one behaviour
MaxThreadSends == 2
\* g_rxPacketCount is a uint64_t and wraps; the model keeps it modulo this
\* number, which no behaviour with a bounded number of frames reaches
CounterModulus == 64

(* ---------------- program constants (E1000E.hpp, E1000E.cpp) ------------ *)
VendorIntel == 32902
RX_DESC_COUNT == 32
TX_DESC_COUNT == 32
MaxFrameLength == 1518
\* bit positions
CTRL_SLU == 6
CTRL_FRCSPD == 11
CTRL_FRCDPLX == 12
CTRL_RST == 26
CTRL_LRST == 3
CTRL_ILOS == 7
CTRL_PHY_RST == 31
SWSM_SMBI == 0
SWSM_SWESMBI == 1
EXTCNF_CTRL_SWFLAG == 5
RAH_AV == 31
ICR_TXDW == 0
ICR_TXQE == 1
ICR_LSC == 2
ICR_RXDMT0 == 4
ICR_RXT0 == 7
TXCMD_EOP == 0
TXCMD_IFCS == 1
TXCMD_RS == 3
TXSTA_DD == 0
RXSTA_DD == 0
RXSTA_EOP == 1
RCTL_EN == 1
RCTL_BAM == 15
RCTL_BSEX == 25
RCTL_SECRC == 26
TCTL_EN == 1
TCTL_PSP == 3
PHY_CONTROL == 0
PHY_AUTONEG_ADV == 4
PHY_1000T_CTRL == 9
PHY_CTRL_RESET == 15
PHY_CTRL_AUTONEG_EN == 12
PHY_CTRL_RESTART_AN == 9
PCI_CMD_MEM_SPACE == 1
PCI_CMD_BUS_MASTER == 2
PCI_CMD_INTX_DISABLE == 10
MSI_IRQ == 24
MSI_VECTOR == 56
MSI_CTRL_64BIT == 7
MSI_CTRL_ENABLE == 0
NoIrqLine == 255
\* iteration ceilings of the busy-wait loops
SemaphoreCeiling == 2000
MdicCeiling == 200000
PhyResetCeiling == 100000
EerdCeiling == 10000
ResetCeiling == 10000
MtaEntries == 128

\* the whole 32-bit word 0xFFFFFFFF
AllBits == 0..31
\* the interrupt causes Initialize unmasks
ImsCauses == {ICR_RXT0, ICR_TXDW, ICR_TXQE, ICR_LSC, ICR_RXDMT0}

\* g_deviceTable: the device ids of the I217/I218/I219 series
g_deviceTable ==
  { 5434, 5435, 5466, 5465, 5536, 5537, 5538, 5539,
    5487, 5559, 5563, 5565, 5599, 5601, 5603, 5591,
    3404, 3406, 3411, 3413, 3525, 3527, 6684, 6686,
    5488, 5560, 5564, 5566, 5600, 5602, 5590, 5592,
    3405, 3407, 3412, 3526, 3528, 6685, 6687 }

VARIABLES
  \* driver statics
  g_initialized, g_pollingMode, g_mmioBase, g_macAddress, g_irqLine,
  g_rxDescs, g_txDescs, g_txBuffers, g_rxTail, g_txTail,
  g_rxPacketCount, g_txPacketCount, g_rxCallback, g_polling,
  \* the device: MMIO registers, PHY registers, PCI configuration space
  regs, phyRegs, pci,
  \* the platform: the dispatch routine registered with the interrupt controller
  irqHandler,
  \* the environment: the device's behaviour, the position of Initialize,
  \* the active drains (innermost last), the last operation and its result
  dev, initPc, stack, op,
  \* counts of the environment: Initialize calls, accepted sends (all, and those
  \* made by the callback), frames received, descriptors completed by hardware
  nInit, nSent, nCbSent, nFrames,
  \* the index last passed to the callback (-1: none yet), and whether a
  \* completed descriptor was consumed while no callback was registered
  lastDelivered, dropped,
  \* the indices passed to the callback, in order
  delivered,
  \* the firmware (management engine): the semaphore bits it has taken; and the
  \* locals and the outcome of the driver's AcquireSwFwSync
  fw, acq

driverVars == <<g_initialized, g_pollingMode, g_mmioBase, g_macAddress, g_irqLine,
                g_rxPacketCount, g_txPacketCount, g_rxCallback, g_polling>>
rxVars == <<g_rxDescs, g_rxTail>>
txVars == <<g_txDescs, g_txBuffers, g_txTail>>
devVars == <<regs, phyRegs, pci, irqHandler>>
envVars == <<dev, initPc, stack, nInit, nSent, nCbSent, nFrames, lastDelivered, dropped, delivered,
             fw, acq>>
vars == <<driverVars, rxVars, txVars, devVars, envVars, op>>


(* ---------------- values ---------------- *)
\* g_rxCallback: no callback, or the network stack's frame handler
NoCallback == "nullptr"
OnFrameReceived == "Ethernet::OnFrameReceived"

\* data pointers of the callers: nullptr, or a buffer holding payload p
NullData == "nullptr"
\* a ring pointer before its allocation: no descriptor can be reached
NullRing == [i \in {} |-> 0]

\* physical pages handed out by the page allocator, in allocation order
RxDescsPage == 1
TxDescsPage == 66
RxBufferPhys(i) == 2 + 2 * i
TxBufferPhys(i) == 67 + i

(* ---------------- the device under the driver ---------------- *)
\* Lists of enumerated PCI devices: none, an Intel device outside the table,
\* a foreign device whose id is in the table, a supported NIC behind another device
DeviceLists ==
  { <<>>,
    << [VendorId |-> VendorIntel, DeviceId |-> 4110] >>,
    << [VendorId |-> 4332, DeviceId |-> 5434] >>,
    << [VendorId |-> 4660, DeviceId |-> 4369],
       [VendorId |-> VendorIntel, DeviceId |-> 5560] >>,
    << [VendorId |-> VendorIntel, DeviceId |-> 5434] >> }

\* MAC 52:54:00:12:34:56 in RAL/RAH, and 02:00:5E:10:20:30 in EEPROM words 0..2
RalProgrammed == 302011474
RahProgrammed == 22068
EepromWords == <<2, 4190, 12320>>

\* A behaviour of the device: what its registers answer to the driver.
\* xxxAt is the number of the read (counted from 1) at which the polled bit first
\* reads as the driver wants it; a value above the loop's ceiling means never.
DeviceProfiles ==
  [ devices : DeviceLists,
    smbiAt : {1, SemaphoreCeiling + 1},
    swflagAt : {1, SemaphoreCeiling + 1},
    rstClearsAt : {1, ResetCeiling + 1},
    mdicReadyAt : {1, MdicCeiling + 1},
    mdicError : BOOLEAN,
    phyResetClearsAt : {2, PhyResetCeiling + 1},
    eerdDoneAt : {1, EerdCeiling + 1},
    ral : {0, RalProgrammed},
    msi : {"none", "msi32", "msi64"},
    irqLine : {11, NoIrqLine} ]

\* The device found and working, in each of the three interrupt tiers
NominalProfiles ==
  { d \in DeviceProfiles :
      /\ d.devices = << [VendorId |-> VendorIntel, DeviceId |-> 5434] >>
      /\ d.smbiAt = 1 /\ d.swflagAt = 1 /\ d.rstClearsAt = 1
      /\ d.mdicReadyAt = 1 /\ ~d.mdicError /\ d.phyResetClearsAt = 2
      /\ d.eerdDoneAt = 1 /\ d.ral = RalProgrammed
      /\ <<d.msi, d.irqLine>> \in {<<"msi64", 11>>, <<"none", 11>>, <<"none", NoIrqLine>>} }

\* offset of the MSI capability in configuration space (0: absent)
MsiCapOffset(d) == IF d.msi = "none" THEN 0 ELSE 208

\* the registers as the device presents them before the driver touches it
\* the bits of EXTCNF_CTRL that are not the semaphore flag: the device comes
\* up with some of them set, bit 0 stands for them
ExtcnfOtherBits == {0}

ResetRegs(d) ==
  [ CTRL |-> {}, IMS |-> AllBits, IMC |-> {}, ICRReads |-> 0,
    SWSM |-> (IF d.smbiAt > 1 THEN {SWSM_SMBI} ELSE {}) \cup {SWSM_SWESMBI},
    EXTCNF_CTRL |-> (IF d.swflagAt > 1 THEN {EXTCNF_CTRL_SWFLAG} ELSE {}) \cup ExtcnfOtherBits,
    MDIC |-> [op |-> "none", reg |-> 0, phy |-> 0, data |-> {}],
    EERD |-> 0,
    RAL |-> d.ral, RAH |-> [low |-> IF d.ral = 0 THEN 0 ELSE RahProgrammed, av |-> FALSE],
    MTA |-> "unwritten",
    RDBAL |-> 0, RDBAH |-> 0, RDLEN |-> 0, RDH |-> 0, RDT |-> 0, RCTL |-> {},
    TDBAL |-> 0, TDBAH |-> 0, TDLEN |-> 0, TDH |-> 0, TDT |-> 0, TCTL |-> {},
    TIPG |-> <<0, 0, 0>> ]

ResetPhyRegs == [r \in {PHY_CONTROL, PHY_AUTONEG_ADV, PHY_1000T_CTRL} |->
                   IF r = PHY_AUTONEG_ADV THEN {0} ELSE {}]

ResetPci(d) ==
  [ command |-> {},
    msgCtrl |-> IF d.msi = "msi64" THEN {MSI_CTRL_64BIT, 4} ELSE
                IF d.msi = "msi32" THEN {5} ELSE {},
    written |-> <<>> ]

(* ---------------- the last operation ---------------- *)
\* name: the operation; ctx: "top" (a caller thread), "callback" (from inside
\* the RX callback) or "hw"; data, length: SendPacket's arguments; idx: the
\* descriptor concerned; ret: the result
Op(name, ctx, data, length, idx, ret) ==
  [name |-> name, ctx |-> ctx, data |-> data, length |-> length, idx |-> idx, ret |-> ret]

NoDesc == 0 - 1

\* AcquireSwFwSync before it runs: at the first read of SWSM, nothing held
AcquireEntry ==
  [pc |-> "read", stage |-> "smbi", tries |-> 0, smbi |-> FALSE, swflag |-> FALSE,
   ret |-> "none", raced |-> FALSE]

(* ---------------- construction ---------------- *)
\* the statics as their initializers leave them, over a device of `profiles`
InitOver(profiles) ==
  /\ dev \in profiles
  /\ g_initialized = FALSE /\ g_pollingMode = FALSE /\ g_mmioBase = "nullptr"
  /\ g_macAddress = <<0, 0, 0, 0, 0, 0>> /\ g_irqLine = 0
  /\ g_rxDescs = NullRing /\ g_txDescs = NullRing /\ g_txBuffers = NullRing
  /\ g_rxTail = 0 /\ g_txTail = 0
  /\ g_rxPacketCount = 0 /\ g_txPacketCount = 0
  /\ g_rxCallback = NoCallback /\ g_polling = FALSE
  /\ regs = ResetRegs(dev) /\ phyRegs = ResetPhyRegs /\ pci = ResetPci(dev)
  /\ irqHandler = {}
  /\ initPc = "idle" /\ stack = <<>>
  /\ op = Op("boot", "top", NullData, 0, NoDesc, "void")
  /\ nInit = 0 /\ nSent = 0 /\ nCbSent = 0 /\ nFrames = 0
  /\ lastDelivered = NoDesc /\ dropped = FALSE /\ delivered = <<>>
  /\ fw = [smbi |-> dev.smbiAt > 1, swflag |-> dev.swflagAt > 1]
  /\ acq = AcquireEntry


(* ---------------- register-level helpers ---------------- *)
\* for (i = 0; i < ceiling; i++) { if (the polled bit reads as wanted) leave; }
\* against a register that first answers so at read number setAt
PollLoop(ceiling, setAt) ==
  IF setAt <= ceiling THEN [hit |-> TRUE, polls |-> setAt]
                      ELSE [hit |-> FALSE, polls |-> ceiling]

\* AcquireSwFwSync: SMBI, then SWFLAG; SMBI is given back when SWFLAG fails
AcquireSwFwSync(r, d) ==
  LET smbi == PollLoop(SemaphoreCeiling, d.smbiAt)
      swflag == PollLoop(SemaphoreCeiling, d.swflagAt)
      r1 == [r EXCEPT !.SWSM = @ \cup {SWSM_SMBI}]
  IN  IF ~smbi.hit THEN [regs |-> r, ret |-> FALSE, smbiTries |-> smbi.polls, swflagTries |-> 0]
      ELSE IF swflag.hit
      THEN [regs |-> [r1 EXCEPT !.EXTCNF_CTRL = @ \cup {EXTCNF_CTRL_SWFLAG}],
            ret |-> TRUE, smbiTries |-> smbi.polls, swflagTries |-> swflag.polls]
      ELSE [regs |-> [r1 EXCEPT !.SWSM = @ \ {SWSM_SMBI}],
            ret |-> FALSE, smbiTries |-> smbi.polls, swflagTries |-> swflag.polls]

\* ReleaseSwFwSync: clear SWFLAG, then SMBI, held or not
ReleaseSwFwSync(r) ==
  [r EXCEPT !.EXTCNF_CTRL = @ \ {EXTCNF_CTRL_SWFLAG}, !.SWSM = @ \ {SWSM_SMBI}]

\* PhyRead: the register's value, or 0 on an error or a timeout
PhyRead(phyReg, ph, d) ==
  LET w == PollLoop(MdicCeiling, d.mdicReadyAt)
  IN  [value |-> IF w.hit /\ ~d.mdicError THEN ph[phyReg] ELSE {},
       polls |-> w.polls,
       mdic |-> [op |-> "read", reg |-> phyReg % 32, phy |-> 1, data |-> {}]]

\* PhyWrite: the PHY takes the value unless the access fails
PhyWrite(phyReg, value, ph, d) ==
  LET w == PollLoop(MdicCeiling, d.mdicReadyAt)
  IN  [phy |-> IF w.hit /\ ~d.mdicError THEN [ph EXCEPT ![phyReg] = value] ELSE ph,
       polls |-> w.polls,
       mdic |-> [op |-> "write", reg |-> phyReg % 32, phy |-> 1, data |-> value]]

\* mutant: a PhyRead that failed is taken as "still in reset" and repeated
InitPhy_FailedReadRetried(ph, d) ==
  LET ph1 == PhyWrite(PHY_CONTROL, {PHY_CTRL_RESET}, ph, d).phy
      first == PhyRead(PHY_CONTROL, ph1, d).value
      failed == d.mdicReadyAt > MdicCeiling \/ d.mdicError
      wait == IF failed THEN [hit |-> FALSE, polls |-> PhyResetCeiling]
              ELSE IF PHY_CTRL_RESET \notin first THEN [hit |-> TRUE, polls |-> 1]
              ELSE PollLoop(PhyResetCeiling, d.phyResetClearsAt)
      ph2 == IF wait.hit THEN [ph1 EXCEPT ![PHY_CONTROL] = @ \ {PHY_CTRL_RESET}] ELSE ph1
      anar == PhyRead(PHY_AUTONEG_ADV, ph2, d).value \cup {5, 6, 7, 8}
      ph3 == PhyWrite(PHY_AUTONEG_ADV, anar, ph2, d).phy
      gbcr == PhyRead(PHY_1000T_CTRL, ph3, d).value \cup {8, 9}
      ph4 == PhyWrite(PHY_1000T_CTRL, gbcr, ph3, d).phy
      last == PhyWrite(PHY_CONTROL, {PHY_CTRL_AUTONEG_EN, PHY_CTRL_RESTART_AN}, ph4, d)
  IN  [phy |-> last.phy, mdic |-> last.mdic, resetReads |-> wait.polls,
       anar |-> anar, gbcr |-> gbcr]

\* InitPhy: reset, wait for the reset bit, advertise, restart autonegotiation
InitPhy(ph, d) ==
  LET ph1 == PhyWrite(PHY_CONTROL, {PHY_CTRL_RESET}, ph, d).phy
      first == PhyRead(PHY_CONTROL, ph1, d).value
      wait == IF PHY_CTRL_RESET \notin first THEN [hit |-> TRUE, polls |-> 1]
              ELSE PollLoop(PhyResetCeiling, d.phyResetClearsAt)
      ph2 == IF wait.hit THEN [ph1 EXCEPT ![PHY_CONTROL] = @ \ {PHY_CTRL_RESET}] ELSE ph1
      anar == PhyRead(PHY_AUTONEG_ADV, ph2, d).value \cup {5, 6, 7, 8}
      ph3 == PhyWrite(PHY_AUTONEG_ADV, anar, ph2, d).phy
      gbcr == PhyRead(PHY_1000T_CTRL, ph3, d).value \cup {8, 9}
      ph4 == PhyWrite(PHY_1000T_CTRL, gbcr, ph3, d).phy
      last == PhyWrite(PHY_CONTROL, {PHY_CTRL_AUTONEG_EN, PHY_CTRL_RESTART_AN}, ph4, d)
  IN  [phy |-> last.phy, mdic |-> last.mdic, resetReads |-> wait.polls,
       anar |-> anar, gbcr |-> gbcr]

\* EepromRead: the word, or 0 when the done bit never comes
EepromRead(address, d) ==
  LET w == PollLoop(EerdCeiling, d.eerdDoneAt)
  IN  [value |-> IF w.hit THEN EepromWords[address + 1] ELSE 0,
       polls |-> w.polls, eerd |-> address * 4 + 1]

\* mutant: the shifted value is not narrowed to 8 bits
Byte_NotNarrowed(n, k) == n \div (256 ^ k)

\* (uint8_t)(n >> 8k)
Byte(n, k) == (n \div (256 ^ k)) % 256

\* ReadMacAddress: from RAL/RAH, else from the EEPROM; then written back
ReadMacAddress(r, d) ==
  LET ral == r.RAL
      rah == r.RAH.low
      word0 == EepromRead(0, d).value
      word1 == EepromRead(1, d).value
      word2 == EepromRead(2, d).value
      mac == IF ral # 0
             THEN <<Byte(ral, 0), Byte(ral, 1), Byte(ral, 2), Byte(ral, 3),
                    Byte(rah, 0), Byte(rah, 1)>>
             ELSE <<Byte(word0, 0), Byte(word0, 1), Byte(word1, 0), Byte(word1, 1),
                    Byte(word2, 0), Byte(word2, 1)>>
  IN  [mac |-> mac,
       regs |-> [r EXCEPT
                  !.EERD = IF ral # 0 THEN @ ELSE EepromRead(2, d).eerd,
                  !.RAL = mac[1] + mac[2] * 256 + mac[3] * 65536 + mac[4] * 16777216,
                  !.RAH = [low |-> mac[5] + mac[6] * 256, av |-> TRUE]]]

\* SetupRx: 32 descriptors with their buffers, head 0, tail 31, receiver on
SetupRxDescs ==
  [i \in 0..(RX_DESC_COUNT - 1) |->
     [BufferAddress |-> RxBufferPhys(i), Status |-> {}, Length |-> 0, Errors |-> 0]]

\* mutant: the tail is programmed equal to the head
SetupRxRegs_TailAtHead(r) ==
  [r EXCEPT !.RDBAL = RxDescsPage, !.RDBAH = 0, !.RDLEN = RX_DESC_COUNT * 16,
            !.RDH = 0, !.RDT = 0,
            !.RCTL = {RCTL_EN, RCTL_BAM, RCTL_SECRC, 16, 17, RCTL_BSEX}]

SetupRxRegs(r) ==
  [r EXCEPT !.RDBAL = RxDescsPage, !.RDBAH = 0, !.RDLEN = RX_DESC_COUNT * 16,
            !.RDH = 0, !.RDT = RX_DESC_COUNT - 1,
            !.RCTL = {RCTL_EN, RCTL_BAM, RCTL_SECRC, 16, 17, RCTL_BSEX}]

\* mutant: the descriptors start with status 0, as the RX ones do
SetupTxDescs_NotDone ==
  [i \in 0..(TX_DESC_COUNT - 1) |->
     [BufferAddress |-> TxBufferPhys(i), Length |-> 0, Command |-> {}, Status |-> {}]]

\* SetupTx: 32 descriptors marked done, head 0, tail 0, transmitter on
SetupTxDescs ==
  [i \in 0..(TX_DESC_COUNT - 1) |->
     [BufferAddress |-> TxBufferPhys(i), Length |-> 0, Command |-> {}, Status |-> {TXSTA_DD}]]

SetupTxBuffers == [i \in 0..(TX_DESC_COUNT - 1) |-> [data |-> "zero", length |-> 0]]

SetupTxRegs(r) ==
  [r EXCEPT !.TDBAL = TxDescsPage, !.TDBAH = 0, !.TDLEN = TX_DESC_COUNT * 16,
            !.TDH = 0, !.TDT = 0,
            !.TCTL = {TCTL_EN, TCTL_PSP} \cup {4, 5, 6, 7} \cup {18},
            !.TIPG = <<10, 10, 10>>]

\* mutant: the data register is taken to be at cap+8 on every capability
SetupMsi_DataAtCap8(p, d) ==
  LET cap == MsiCapOffset(d)
      msgCtrl == (p.msgCtrl \ {4, 5, 6}) \cup {MSI_CTRL_ENABLE}
      command == p.command \cup {PCI_CMD_INTX_DISABLE}
  IN  IF cap = 0 THEN [ret |-> FALSE, pci |-> p]
      ELSE [ret |-> TRUE,
            pci |-> [command |-> command, msgCtrl |-> msgCtrl,
                     written |-> p.written \o << <<32, cap + 4, "MSI_ADDR_BASE">>,
                                                 <<16, cap + 8, MSI_VECTOR>>,
                                                 <<16, cap + 2, msgCtrl>>, <<16, 4, command>> >>]]

\* SetupMsi: program the MSI capability, if there is one
SetupMsi(p, d) ==
  LET cap == MsiCapOffset(d)
      is64bit == MSI_CTRL_64BIT \in p.msgCtrl
      msgCtrl == (p.msgCtrl \ {4, 5, 6}) \cup {MSI_CTRL_ENABLE}
      command == p.command \cup {PCI_CMD_INTX_DISABLE}
      data == IF is64bit
              THEN << <<32, cap + 8, 0>>, <<16, cap + 12, MSI_VECTOR>> >>
              ELSE << <<16, cap + 8, MSI_VECTOR>> >>
  IN  IF cap = 0 THEN [ret |-> FALSE, pci |-> p]
      ELSE [ret |-> TRUE,
            pci |-> [command |-> command, msgCtrl |-> msgCtrl,
                     written |-> p.written \o << <<32, cap + 4, "MSI_ADDR_BASE">> >> \o data
                                 \o << <<16, cap + 2, msgCtrl>>, <<16, 4, command>> >>]]

\* mutant: the vendor id is not compared
RECURSIVE FindDevice_AnyVendor(_, _)
FindDevice_AnyVendor(devices, i) ==
  IF i > Len(devices) THEN 0
  ELSE IF devices[i].DeviceId \in g_deviceTable THEN i
  ELSE FindDevice_AnyVendor(devices, i + 1)

\* the scan of Initialize: the first Intel device whose id is in the table (0: none)
RECURSIVE FindDevice(_, _)
FindDevice(devices, i) ==
  IF i > Len(devices) THEN 0
  ELSE IF devices[i].VendorId # VendorIntel THEN FindDevice(devices, i + 1)
  ELSE IF devices[i].DeviceId \in g_deviceTable THEN i
  ELSE FindDevice(devices, i + 1)


(* ---------------- Initialize ---------------- *)
\* what no step of Initialize touches
initFrame == <<g_rxPacketCount, g_txPacketCount, g_rxCallback, g_polling,
               dev, stack, nSent, nCbSent, nFrames, lastDelivered, dropped, delivered, fw, acq>>

InitOp(step, ret) == Op("Initialize", "top", NullData, 0, NoDesc, <<step, ret>>)

\* Initialize is called: the scan of the enumerated devices.  No supported
\* device: the call returns at once.
InitializeCall ==
  /\ initPc = "idle" /\ stack = <<>> /\ ~g_initialized
  /\ nInit < MaxInitCalls
  /\ nInit' = nInit + 1
  /\ IF FindDevice(dev.devices, 1) = 0
     THEN /\ initPc' = "idle"
          /\ op' = InitOp("Scan", "no-device")
     ELSE /\ initPc' = "MapMmio"
          /\ op' = InitOp("Scan", "found")
  /\ UNCHANGED <<g_initialized, g_pollingMode, g_mmioBase, g_macAddress, g_irqLine,
                 rxVars, txVars, devVars, initFrame>>

\* map BAR0, enable bus mastering and memory space, read the interrupt line
InitMapMmio ==
  /\ initPc = "MapMmio" /\ stack = <<>>
  /\ g_mmioBase' = "mapped"
  /\ pci' = [pci EXCEPT !.command = @ \cup {PCI_CMD_BUS_MASTER, PCI_CMD_MEM_SPACE},
                        !.written = Append(@, <<16, 4, pci.command \cup
                                       {PCI_CMD_BUS_MASTER, PCI_CMD_MEM_SPACE}>>)]
  /\ g_irqLine' = dev.irqLine
  /\ initPc' = "DisableIrq" /\ op' = InitOp("MapMmio", "ok")
  /\ UNCHANGED <<g_initialized, g_pollingMode, g_macAddress, rxVars, txVars,
                 regs, phyRegs, irqHandler, nInit, initFrame>>

\* WriteReg(REG_IMC, 0xFFFFFFFF); ReadReg(REG_ICR)
DisableInterrupts(r) == [r EXCEPT !.IMC = AllBits, !.IMS = @ \ AllBits, !.ICRReads = @ + 1]

InitRegStep(from, to, newRegs, ret) ==
  /\ initPc = from /\ stack = <<>>
  /\ regs' = newRegs
  /\ initPc' = to /\ op' = InitOp(from, ret)
  /\ UNCHANGED <<g_initialized, g_pollingMode, g_mmioBase, g_macAddress, g_irqLine,
                 rxVars, txVars, phyRegs, pci, irqHandler, nInit, initFrame>>

InitDisableIrq == InitRegStep("DisableIrq", "Acquire", DisableInterrupts(regs), "ok")

\* mutant: a semaphore that is not obtained ends Initialize
InitAcquire_AbortOnTimeout ==
  InitRegStep("Acquire", IF AcquireSwFwSync(regs, dev).ret THEN "Reset" ELSE "idle",
              AcquireSwFwSync(regs, dev).regs, AcquireSwFwSync(regs, dev).ret)

InitAcquire ==
  InitRegStep("Acquire", "Reset", AcquireSwFwSync(regs, dev).regs,
              AcquireSwFwSync(regs, dev).ret)

\* set CTRL.RST, settle, poll for the bit to clear
ResetDevice(r, d) ==
  LET w == PollLoop(ResetCeiling, d.rstClearsAt)
  IN  [regs |-> [r EXCEPT !.CTRL = IF w.hit THEN @ \ {CTRL_RST} ELSE @ \cup {CTRL_RST}],
       cleared |-> w.hit, polls |-> w.polls]

\* mutant: Initialize returns when the reset bit never clears
InitReset_AbortOnTimeout ==
  InitRegStep("Reset", IF ResetDevice(regs, dev).cleared THEN "Release" ELSE "idle",
              ResetDevice(regs, dev).regs, ResetDevice(regs, dev).cleared)

InitReset ==
  InitRegStep("Reset", "Release", ResetDevice(regs, dev).regs, ResetDevice(regs, dev).cleared)

InitRelease == InitRegStep("Release", "DisableIrq2", ReleaseSwFwSync(regs), "ok")

InitDisableIrq2 == InitRegStep("DisableIrq2", "LinkUp", DisableInterrupts(regs), "ok")

\* SLU on; FRCSPD, FRCDPLX, LRST, PHY_RST and ILOS off
LinkUp(r) ==
  [r EXCEPT !.CTRL = (@ \cup {CTRL_SLU})
                     \ {CTRL_FRCSPD, CTRL_FRCDPLX, CTRL_LRST, CTRL_PHY_RST, CTRL_ILOS}]

InitLinkUp == InitRegStep("LinkUp", "Phy", LinkUp(regs), "ok")

InitPhyStep ==
  /\ initPc = "Phy" /\ stack = <<>>
  /\ phyRegs' = InitPhy(phyRegs, dev).phy
  /\ regs' = [regs EXCEPT !.MDIC = InitPhy(phyRegs, dev).mdic]
  /\ initPc' = "Mac" /\ op' = InitOp("Phy", InitPhy(phyRegs, dev).resetReads)
  /\ UNCHANGED <<g_initialized, g_pollingMode, g_mmioBase, g_macAddress, g_irqLine,
                 rxVars, txVars, pci, irqHandler, nInit, initFrame>>

InitMac ==
  /\ initPc = "Mac" /\ stack = <<>>
  /\ g_macAddress' = ReadMacAddress(regs, dev).mac
  /\ regs' = ReadMacAddress(regs, dev).regs
  /\ initPc' = "Mta" /\ op' = InitOp("Mac", "ok")
  /\ UNCHANGED <<g_initialized, g_pollingMode, g_mmioBase, g_irqLine,
                 rxVars, txVars, phyRegs, pci, irqHandler, nInit, initFrame>>

\* mutant: the interrupt strategy is chosen before the rings are set up
InitMta_ThenIrqStrategy ==
  InitRegStep("Mta", "IrqStrategy", [regs EXCEPT !.MTA = "zeroed"], MtaEntries)

InitMta == InitRegStep("Mta", "SetupRx", [regs EXCEPT !.MTA = "zeroed"], MtaEntries)

InitSetupRx ==
  /\ initPc = "SetupRx" /\ stack = <<>>
  /\ initPc' = "SetupTx" /\ op' = InitOp("SetupRx", "ok")
  /\ g_rxDescs' = SetupRxDescs
  /\ g_rxTail' = RX_DESC_COUNT - 1
  /\ regs' = SetupRxRegs(regs)
  /\ UNCHANGED <<g_initialized, g_pollingMode, g_mmioBase, g_macAddress, g_irqLine,
                 txVars, phyRegs, pci, irqHandler, nInit, initFrame>>

InitSetupTx ==
  /\ initPc = "SetupTx" /\ stack = <<>>
  /\ initPc' = "IrqStrategy" /\ op' = InitOp("SetupTx", "ok")
  /\ g_txDescs' = SetupTxDescs
  /\ g_txBuffers' = SetupTxBuffers
  /\ g_txTail' = 0
  /\ regs' = SetupTxRegs(regs)
  /\ UNCHANGED <<g_initialized, g_pollingMode, g_mmioBase, g_macAddress, g_irqLine,
                 rxVars, phyRegs, pci, irqHandler, nInit, initFrame>>

\* mutant: the legacy line is tried before MSI
IrqStrategy_LegacyFirst(p, d, irqLine) ==
  IF irqLine # NoIrqLine
  THEN [tier |-> "legacy", pci |-> p, handler |-> {irqLine},
        unmask |-> TRUE, polling |-> FALSE]
  ELSE IF SetupMsi(p, d).ret
  THEN [tier |-> "msi", pci |-> SetupMsi(p, d).pci, handler |-> {MSI_IRQ},
        unmask |-> TRUE, polling |-> FALSE]
  ELSE [tier |-> "polling", pci |-> p, handler |-> {},
        unmask |-> FALSE, polling |-> TRUE]

\* mutant: the causes are unmasked in the polling tier too
IrqStrategy_UnmaskAlways(p, d, irqLine) ==
  IF SetupMsi(p, d).ret
  THEN [tier |-> "msi", pci |-> SetupMsi(p, d).pci, handler |-> {MSI_IRQ},
        unmask |-> TRUE, polling |-> FALSE]
  ELSE IF irqLine # NoIrqLine
  THEN [tier |-> "legacy", pci |-> p, handler |-> {irqLine},
        unmask |-> TRUE, polling |-> FALSE]
  ELSE [tier |-> "polling", pci |-> p, handler |-> {},
        unmask |-> TRUE, polling |-> TRUE]

\* MSI, else the legacy line, else polling
IrqStrategy(p, d, irqLine) ==
  IF SetupMsi(p, d).ret
  THEN [tier |-> "msi", pci |-> SetupMsi(p, d).pci, handler |-> {MSI_IRQ},
        unmask |-> TRUE, polling |-> FALSE]
  ELSE IF irqLine # NoIrqLine
  THEN [tier |-> "legacy", pci |-> p, handler |-> {irqLine},
        unmask |-> TRUE, polling |-> FALSE]
  ELSE [tier |-> "polling", pci |-> p, handler |-> {},
        unmask |-> FALSE, polling |-> TRUE]

InitIrqStrategy ==
  LET s == IrqStrategy(pci, dev, g_irqLine)
  IN  /\ initPc = "IrqStrategy" /\ stack = <<>>
      /\ pci' = s.pci
      /\ irqHandler' = s.handler
      /\ regs' = IF s.unmask THEN [regs EXCEPT !.IMS = @ \cup ImsCauses] ELSE regs
      /\ g_pollingMode' = (g_pollingMode \/ s.polling)
      /\ initPc' = "Finish" /\ op' = InitOp("IrqStrategy", s.tier)
      /\ UNCHANGED <<g_initialized, g_mmioBase, g_macAddress, g_irqLine,
                     rxVars, txVars, phyRegs, nInit, initFrame>>

InitFinish ==
  /\ initPc = "Finish" /\ stack = <<>>
  /\ g_initialized' = TRUE
  /\ initPc' = "idle" /\ op' = InitOp("Finish", "initialized")
  /\ UNCHANGED <<g_pollingMode, g_mmioBase, g_macAddress, g_irqLine,
                 rxVars, txVars, devVars, nInit, initFrame>>

Initialize ==
  \/ InitializeCall \/ InitMapMmio \/ InitDisableIrq \/ InitAcquire \/ InitReset
  \/ InitRelease \/ InitDisableIrq2 \/ InitLinkUp \/ InitPhyStep \/ InitMac
  \/ InitMta \/ InitSetupRx \/ InitSetupTx \/ InitIrqStrategy \/ InitFinish

\* IsInitialized()
IsInitialized == g_initialized

\* GetMacAddress()
GetMacAddress == g_macAddress

InitAll == InitOver(DeviceProfiles)
SpecInit == InitAll /\ [][Initialize]_vars
\* Initialize runs on the boot thread, which keeps running until it returns
SpecInitFair == SpecInit /\ WF_vars(Initialize)


(* ---------------- AcquireSwFwSync against a running firmware ---------------- *)
\* The two semaphore bits are plain register bits shared with the firmware.
\* The firmware takes a bit only when it is clear, in one step, and gives back
\* only what it took.  AcquireSwFwSync runs read by read: each of its register
\* accesses is a step, and the firmware may run between any two of them.
SemStages == {"smbi", "swflag"}
SemReg(stage) == IF stage = "smbi" THEN "SWSM" ELSE "EXTCNF_CTRL"
SemBit(stage) == IF stage = "smbi" THEN SWSM_SMBI ELSE EXTCNF_CTRL_SWFLAG
SemSet(r, stage) == SemBit(stage) \in r[SemReg(stage)]
SemWrite(r, stage, on) ==
  [r EXCEPT ![SemReg(stage)] = IF on THEN @ \cup {SemBit(stage)} ELSE @ \ {SemBit(stage)}]

\* what the acquisition steps leave alone
acqFrame == <<g_initialized, g_pollingMode, g_mmioBase, g_macAddress, g_irqLine,
              rxVars, txVars, phyRegs, pci, irqHandler, nInit,
              g_rxPacketCount, g_txPacketCount, g_rxCallback, g_polling,
              dev, stack, nSent, nCbSent, nFrames, lastDelivered, dropped, delivered>>

\* mutant: SMBI is kept when SWFLAG is not obtained
AcquireFailed_KeepsSmbi(a, r) ==
  [acq |-> [a EXCEPT !.pc = "done", !.tries = 0, !.ret = "false"], regs |-> r]

\* mutant: SMBI is taken as given back, the register is not written
AcquireFailed_NoWrite(a, r) ==
  [acq |-> [a EXCEPT !.pc = "done", !.tries = 0, !.ret = "false", !.smbi = FALSE],
   regs |-> r]

\* the loop of a stage has run out: return false; after the SWFLAG loop SMBI
\* is given back first
AcquireFailed(a, r) ==
  IF a.stage = "smbi"
  THEN [acq |-> [a EXCEPT !.pc = "done", !.tries = 0, !.ret = "false"], regs |-> r]
  ELSE [acq |-> [a EXCEPT !.pc = "done", !.tries = 0, !.ret = "false", !.smbi = FALSE],
        regs |-> SemWrite(r, "smbi", FALSE)]

\* the end of an iteration that did not obtain the bit: i++, i < 2000
AcquireNextTry ==
  IF acq.tries + 1 >= SemaphoreCeiling
  THEN /\ acq' = AcquireFailed(acq, regs).acq
       /\ regs' = AcquireFailed(acq, regs).regs
       /\ initPc' = "Reset"
       /\ op' = InitOp("Acquire", "timeout")
  ELSE /\ acq' = [acq EXCEPT !.tries = @ + 1, !.pc = "read"]
       /\ regs' = regs /\ initPc' = initPc
       /\ op' = InitOp("Acquire", "retry")

\* uint32_t swsm = ReadReg(REG_SWSM); if (!(swsm & SWSM_SMBI)) ...
AcquireRead ==
  /\ initPc = "Acquire" /\ stack = <<>> /\ acq.pc = "read"
  /\ IF SemSet(regs, acq.stage)
     THEN AcquireNextTry
     ELSE /\ acq' = [acq EXCEPT !.pc = "write"]
          /\ regs' = regs /\ initPc' = initPc
          /\ op' = InitOp("Acquire", "clear")
  /\ UNCHANGED <<acqFrame, fw>>

\* WriteReg(REG_SWSM, swsm | SWSM_SMBI)
AcquireWrite ==
  /\ initPc = "Acquire" /\ stack = <<>> /\ acq.pc = "write"
  /\ regs' = SemWrite(regs, acq.stage, TRUE)
  /\ acq' = [acq EXCEPT !.pc = "verify"]
  /\ op' = InitOp("Acquire", "written")
  /\ UNCHANGED <<acqFrame, fw, initPc>>

\* mutant: the bit is taken as obtained once it is written, without the
\* read-back
AcquireVerify_NoReadBack ==
  /\ initPc = "Acquire" /\ stack = <<>> /\ acq.pc = "verify"
  /\ IF acq.stage = "smbi"
     THEN /\ acq' = [acq EXCEPT !.smbi = TRUE, !.stage = "swflag", !.tries = 0, !.pc = "read"]
          /\ regs' = regs /\ initPc' = initPc
          /\ op' = InitOp("Acquire", "smbi")
     ELSE /\ acq' = [acq EXCEPT !.swflag = TRUE, !.tries = 0, !.pc = "done", !.ret = "true"]
          /\ regs' = regs /\ initPc' = "Reset"
          /\ op' = InitOp("Acquire", "acquired")
  /\ UNCHANGED <<acqFrame, fw>>

\* if (ReadReg(REG_SWSM) & SWSM_SMBI): the bit is taken as obtained
AcquireVerify ==
  /\ initPc = "Acquire" /\ stack = <<>> /\ acq.pc = "verify"
  /\ IF ~SemSet(regs, acq.stage)
     THEN AcquireNextTry
     ELSE IF acq.stage = "smbi"
     THEN /\ acq' = [acq EXCEPT !.smbi = TRUE, !.stage = "swflag", !.tries = 0, !.pc = "read"]
          /\ regs' = regs /\ initPc' = initPc
          /\ op' = InitOp("Acquire", "smbi")
     ELSE /\ acq' = [acq EXCEPT !.swflag = TRUE, !.tries = 0, !.pc = "done", !.ret = "true"]
          /\ regs' = regs /\ initPc' = "Reset"
          /\ op' = InitOp("Acquire", "acquired")
  /\ UNCHANGED <<acqFrame, fw>>

\* the firmware takes a bit that reads clear; the take falls into the driver's
\* window when the driver has read the bit clear and not yet verified it
FirmwareTake(stage) ==
  /\ ~fw[stage]
  /\ IF SemSet(regs, stage)
     THEN /\ op' = Op("Firmware", "hw", NullData, 0, NoDesc, <<"refused", stage>>)
          /\ UNCHANGED <<regs, fw, acq>>
     ELSE /\ regs' = SemWrite(regs, stage, TRUE)
          /\ fw' = [fw EXCEPT ![stage] = TRUE]
          /\ acq' = IF initPc = "Acquire" /\ acq.stage = stage /\ acq.pc \in {"write", "verify"}
                    THEN [acq EXCEPT !.raced = TRUE] ELSE acq
          /\ op' = Op("Firmware", "hw", NullData, 0, NoDesc, <<"taken", stage>>)
  /\ UNCHANGED <<acqFrame, initPc>>

\* the firmware gives back a bit it took
FirmwareRelease(stage) ==
  /\ fw[stage]
  /\ regs' = SemWrite(regs, stage, FALSE)
  /\ fw' = [fw EXCEPT ![stage] = FALSE]
  /\ op' = Op("Firmware", "hw", NullData, 0, NoDesc, <<"released", stage>>)
  /\ UNCHANGED <<acqFrame, initPc, acq>>

Firmware == \E stage \in SemStages : FirmwareTake(stage) \/ FirmwareRelease(stage)

\* mutant: SWFLAG is cleared only when AcquireSwFwSync had obtained it
ReleaseClearSwflag_OnlyIfHeld ==
  InitRegStep("Release", "ReleaseSmbi",
              IF acq.swflag THEN SemWrite(regs, "swflag", FALSE) ELSE regs, "swflag")

\* ReleaseSwFwSync, its two writes taken one by one:
\* extcnf = ReadReg(REG_EXTCNF_CTRL); WriteReg(REG_EXTCNF_CTRL, extcnf & ~SWFLAG)
ReleaseClearSwflag ==
  InitRegStep("Release", "ReleaseSmbi", SemWrite(regs, "swflag", FALSE), "swflag")

\* swsm = ReadReg(REG_SWSM); WriteReg(REG_SWSM, swsm & ~SWSM_SMBI)
ReleaseClearSmbi ==
  InitRegStep("ReleaseSmbi", "DisableIrq2", SemWrite(regs, "smbi", FALSE), "smbi")

\* Initialize with AcquireSwFwSync taken access by access and ReleaseSwFwSync
\* write by write
InitializeStepwise ==
  \/ InitializeCall \/ InitMapMmio \/ InitDisableIrq
  \/ AcquireRead \/ AcquireWrite \/ AcquireVerify
  \/ InitReset \/ ReleaseClearSwflag \/ ReleaseClearSmbi \/ InitDisableIrq2 \/ InitLinkUp \/ InitPhyStep \/ InitMac
  \/ InitMta \/ InitSetupRx \/ InitSetupTx \/ InitIrqStrategy \/ InitFinish

\* a working device without interrupts, the semaphore bits free or held by the
\* firmware at boot
FirmwareProfiles ==
  { d \in DeviceProfiles :
      /\ d.devices = << [VendorId |-> VendorIntel, DeviceId |-> 5434] >>
      /\ d.rstClearsAt = 1
      /\ d.mdicReadyAt = 1 /\ ~d.mdicError /\ d.phyResetClearsAt = 2
      /\ d.eerdDoneAt = 1 /\ d.ral = RalProgrammed
      /\ d.msi = "none" /\ d.irqLine = NoIrqLine }

InitFirmware == InitOver(FirmwareProfiles)
NextFirmware == InitializeStepwise \/ Firmware
SpecFirmware == InitFirmware /\ [][NextFirmware]_vars


(* ---------------- EepromRead and PhyRead, poll by poll ---------------- *)
\* One call of EepromRead or PhyRead on the mapped device, each pass of its
\* for loop a step.  The active call is the frame on the stack: fn, its
\* argument, the loop counter i and the register reads made so far.
PollCall(fn, arg) == [fn |-> fn, arg |-> arg, i |-> 0, reads |-> 0]

\* the ceiling of the loop and the read at which the device sets the bit
PollCeiling(fn) == IF fn = "EepromRead" THEN EerdCeiling ELSE MdicCeiling
PollSetAt(fn, d) == IF fn = "EepromRead" THEN d.eerdDoneAt ELSE d.mdicReadyAt

\* what the call returns once the bit is seen
PollValue(fn, arg, ph, d) ==
  IF fn = "EepromRead" THEN EepromWords[arg + 1]
  ELSE IF d.mdicError THEN {} ELSE ph[arg]
\* return 0
PollZero(fn) == IF fn = "EepromRead" THEN 0 ELSE {}

\* mutant: the loop makes one pass more
PollExhausted_OnePassMore(i, ceiling) == i + 1 > ceiling

\* i++; i < ceiling fails
PollExhausted(i, ceiling) == i + 1 >= ceiling

pollFrame == <<g_initialized, g_pollingMode, g_mmioBase, g_macAddress, g_irqLine,
               rxVars, txVars, phyRegs, pci, irqHandler, nInit, initPc,
               g_rxPacketCount, g_txPacketCount, g_rxCallback, g_polling,
               dev, nSent, nCbSent, nFrames, lastDelivered, dropped, delivered, fw, acq>>

\* the call: the command is written to EERD or MDIC
EepromReadCall(address) ==
  /\ initPc = "DisableIrq" /\ stack = <<>> /\ op.name = "Initialize"
  /\ regs' = [regs EXCEPT !.EERD = EepromRead(address, dev).eerd]
  /\ stack' = <<PollCall("EepromRead", address)>>
  /\ op' = Op("EepromRead", "call", address, 0, NoDesc, "void")
  /\ UNCHANGED pollFrame

PhyReadCall(phyReg) ==
  /\ initPc = "DisableIrq" /\ stack = <<>> /\ op.name = "Initialize"
  /\ regs' = [regs EXCEPT !.MDIC = PhyRead(phyReg, phyRegs, dev).mdic]
  /\ stack' = <<PollCall("PhyRead", phyReg)>>
  /\ op' = Op("PhyRead", "call", phyReg, 0, NoDesc, "void")
  /\ UNCHANGED pollFrame

\* one pass of the loop: read the register; return the value when the bit is
\* set; else count the pass, and return 0 when the loop is exhausted
PollPass ==
  /\ stack # <<>> /\ stack[1].fn \in {"EepromRead", "PhyRead"}
  /\ LET f == stack[1]
         reads == f.reads + 1
     IN  IF reads >= PollSetAt(f.fn, dev)
         THEN /\ stack' = <<>>
              /\ op' = Op(f.fn, "return", f.arg, reads, NoDesc,
                          PollValue(f.fn, f.arg, phyRegs, dev))
         ELSE IF PollExhausted(f.i, PollCeiling(f.fn))
         THEN /\ stack' = <<>>
              /\ op' = Op(f.fn, "return", f.arg, reads, NoDesc, PollZero(f.fn))
         ELSE /\ stack' = <<[f EXCEPT !.i = @ + 1, !.reads = reads]>>
              /\ op' = Op(f.fn, "poll", f.arg, reads, NoDesc, "void")
  /\ UNCHANGED <<pollFrame, regs>>

\* devices that answer at the first read, at the second with an MDIC error, at
\* the last read the loop makes, and never
PollProfiles ==
  { [d EXCEPT !.eerdDoneAt = a[1], !.mdicReadyAt = a[2], !.mdicError = a[3]] :
      d \in { n \in NominalProfiles : n.msi = "none" /\ n.irqLine = NoIrqLine },
      a \in { <<1, 1, FALSE>>, <<2, 2, TRUE>>,
              <<EerdCeiling, MdicCeiling, FALSE>>,
              <<EerdCeiling + 1, MdicCeiling + 1, FALSE>> } }

InitPoll == InitOver(PollProfiles)
NextPoll ==
  \/ InitializeCall \/ InitMapMmio
  \/ \E address \in {0, 1, 2} : EepromReadCall(address)
  \/ PhyReadCall(PHY_AUTONEG_ADV)
  \/ PollPass
SpecPoll == InitPoll /\ [][NextPoll]_vars


(* ---------------- callers and contexts ---------------- *)
\* what no operation after Initialize touches
cfgVars == <<g_initialized, g_pollingMode, g_mmioBase, g_macAddress, g_irqLine,
             phyRegs, pci, irqHandler, dev, initPc, nInit, fw, acq>>

\* a caller thread runs: nothing of the driver is active
AtTop == stack = <<>> /\ initPc = "idle"
\* the RX callback runs, invoked by the innermost drain
InCallback == stack # <<>> /\ stack[Len(stack)].pc = "cb"
Ctx == IF stack = <<>> THEN "top" ELSE "callback"

\* the frame the caller sends as its n-th accepted one (n from 0)
TxLens == <<1, 64, 1518>>
SendLength(n) == TxLens[(n % 3) + 1]
SendData(n) == IF n % 2 = 0 THEN "payloadA" ELSE "payloadB"

\* the arguments callers pass to SendPacket: the next frame, and misuse
SendInputs(n) ==
  { <<SendData(n), SendLength(n)>>,
    <<NullData, SendLength(n)>>, <<NullData, 0>>,
    <<SendData(n), 0>>, <<SendData(n), MaxFrameLength + 1>>, <<SendData(n), 65535>> }

ValidInput(data, length) == data # NullData /\ length >= 1 /\ length <= MaxFrameLength

\* the length of the n-th frame the hardware receives (n from 0)
FrameLens == <<64, 1518, 60>>
FrameLength(n) == FrameLens[(n % 3) + 1]

(* ---------------- SendPacket ---------------- *)
\* mutant: the upper bound of the length is not checked
SendRejects_NoMaxLength(initialized, data, length) ==
  ~initialized \/ data = NullData \/ length = 0

\* if (!g_initialized || data == nullptr || length == 0 || length > 1518) return false
SendRejects(initialized, data, length) ==
  ~initialized \/ data = NullData \/ length = 0 \/ length > MaxFrameLength

\* if (!(desc.Status & TXSTA_DD)) return false
TxRingFull(descs, tail) == TXSTA_DD \notin descs[tail].Status

\* mutant: the descriptor is pointed at the buffer of the slot after it
TxDescriptorFor_NextBuffer(tail, length) ==
  [BufferAddress |-> TxBufferPhys((tail + 1) % TX_DESC_COUNT), Length |-> length,
   Command |-> {TXCMD_EOP, TXCMD_IFCS, TXCMD_RS}, Status |-> {}]

\* mutant: the descriptor is handed over with its DD bit still set
TxDescriptorFor_KeepsDD(tail, length) ==
  [BufferAddress |-> TxBufferPhys(tail), Length |-> length,
   Command |-> {TXCMD_EOP, TXCMD_IFCS, TXCMD_RS}, Status |-> {TXSTA_DD}]

\* desc.BufferAddress, Length, Command, Status as SendPacket writes them
TxDescriptorFor(tail, length) ==
  [BufferAddress |-> TxBufferPhys(tail), Length |-> length,
   Command |-> {TXCMD_EOP, TXCMD_IFCS, TXCMD_RS}, Status |-> {}]

\* g_txTail = (g_txTail + 1) % TX_DESC_COUNT
NextTxTail(tail) == (tail + 1) % TX_DESC_COUNT

\* mutant: the new tail is written to RDT as well
SendPacket_RingsRxDoorbell(data, length) ==
  IF SendRejects(g_initialized, data, length)
  THEN /\ op' = Op("SendPacket", Ctx, data, length, NoDesc, FALSE)
       /\ UNCHANGED <<txVars, regs, g_txPacketCount, nSent, nCbSent>>
  ELSE IF TxRingFull(g_txDescs, g_txTail)
  THEN /\ op' = Op("SendPacket", Ctx, data, length, g_txTail, FALSE)
       /\ UNCHANGED <<txVars, regs, g_txPacketCount, nSent, nCbSent>>
  ELSE /\ g_txBuffers' = [g_txBuffers EXCEPT ![g_txTail] = [data |-> data, length |-> length]]
       /\ g_txDescs' = [g_txDescs EXCEPT ![g_txTail] = TxDescriptorFor(g_txTail, length)]
       /\ g_txTail' = NextTxTail(g_txTail)
       /\ regs' = [regs EXCEPT !.TDT = NextTxTail(g_txTail), !.RDT = NextTxTail(g_txTail)]
       /\ g_txPacketCount' = g_txPacketCount + 1
       /\ nSent' = nSent + 1
       /\ nCbSent' = IF stack = <<>> THEN nCbSent ELSE nCbSent + 1
       /\ op' = Op("SendPacket", Ctx, data, length, g_txTail, TRUE)

SendPacket(data, length) ==
  IF SendRejects(g_initialized, data, length)
  THEN /\ op' = Op("SendPacket", Ctx, data, length, NoDesc, FALSE)
       /\ UNCHANGED <<txVars, regs, g_txPacketCount, nSent, nCbSent>>
  ELSE IF TxRingFull(g_txDescs, g_txTail)
  THEN /\ op' = Op("SendPacket", Ctx, data, length, g_txTail, FALSE)
       /\ UNCHANGED <<txVars, regs, g_txPacketCount, nSent, nCbSent>>
  ELSE /\ g_txBuffers' = [g_txBuffers EXCEPT ![g_txTail] = [data |-> data, length |-> length]]
       /\ g_txDescs' = [g_txDescs EXCEPT ![g_txTail] = TxDescriptorFor(g_txTail, length)]
       /\ g_txTail' = NextTxTail(g_txTail)
       /\ regs' = [regs EXCEPT !.TDT = NextTxTail(g_txTail)]
       /\ g_txPacketCount' = g_txPacketCount + 1
       /\ nSent' = nSent + 1
       /\ nCbSent' = IF stack = <<>> THEN nCbSent ELSE nCbSent + 1
       /\ op' = Op("SendPacket", Ctx, data, length, g_txTail, TRUE)

\* a caller thread calls SendPacket
CallSendPacket ==
  /\ AtTop
  /\ \E in \in SendInputs(nSent) :
       /\ ValidInput(in[1], in[2]) => nSent < MaxSends
       /\ SendPacket(in[1], in[2])
  /\ UNCHANGED <<cfgVars, rxVars, g_rxPacketCount, g_rxCallback, g_polling,
                 stack, nFrames, lastDelivered, dropped, delivered>>

\* the RX callback calls SendPacket (a reply to the frame it was given)
CallbackSendPacket ==
  /\ InCallback
  /\ \E in \in SendInputs(nSent) :
       /\ ValidInput(in[1], in[2]) => nSent < MaxSends /\ nCbSent < MaxCbSends
       /\ SendPacket(in[1], in[2])
  /\ UNCHANGED <<cfgVars, rxVars, g_rxPacketCount, g_rxCallback, g_polling,
                 stack, nFrames, lastDelivered, dropped, delivered>>

\* the transmitter completes the oldest outstanding descriptor and sets its DD bit
TxHwComplete ==
  /\ TCTL_EN \in regs.TCTL
  /\ TXSTA_DD \notin g_txDescs[regs.TDH].Status
  /\ g_txDescs' = [g_txDescs EXCEPT ![regs.TDH].Status = @ \cup {TXSTA_DD}]
  /\ regs' = [regs EXCEPT !.TDH = (@ + 1) % TX_DESC_COUNT]
  /\ op' = Op("TxHwComplete", "hw", NullData, 0, regs.TDH, "void")
  /\ UNCHANGED <<cfgVars, rxVars, g_txBuffers, g_txTail, g_rxPacketCount, g_txPacketCount,
                 g_rxCallback, g_polling, stack, nSent, nCbSent, nFrames,
                 lastDelivered, dropped, delivered>>

InitNominal == InitOver(NominalProfiles)
NextTx == Initialize \/ CallSendPacket \/ TxHwComplete
SpecTx == InitNominal /\ [][NextTx]_vars


(* ---------------- the RX drain ---------------- *)
\* g_rxPacketCount++
CountUp(n) == (n + 1) % CounterModulus

\* uint32_t nextIdx = (g_rxTail + 1) % RX_DESC_COUNT
NextRxIdx(tail) == (tail + 1) % RX_DESC_COUNT

\* desc.Status & RXSTA_DD
RxDescDone(desc) == RXSTA_DD \in desc.Status

\* desc.Status = 0; desc.Length = 0; desc.Errors = 0
RxDescCleared(desc) == [desc EXCEPT !.Status = {}, !.Length = 0, !.Errors = 0]

\* the number of consecutive done descriptors from idx on (n counted so far)
RECURSIVE DoneRun(_, _, _)
DoneRun(descs, idx, n) ==
  IF n = RX_DESC_COUNT \/ ~RxDescDone(descs[idx]) THEN n
  ELSE DoneRun(descs, (idx + 1) % RX_DESC_COUNT, n + 1)

\* An active drain.  fn: the function that runs it; pc: "loop" (at the head of
\* its while loop) or "cb" (inside the callback it invoked); nextIdx, length: its
\* locals.  The rest records the drain for the properties below: the tail and
\* the run of done descriptors it started with, the callback invocations it has
\* made, whether they followed that run, whether hardware completed a
\* descriptor meanwhile; the RX counter and the number of callback invocations
\* made so far, at its start.
NewDrain(fn) ==
  LET k == DoneRun(g_rxDescs, NextRxIdx(g_rxTail), 0)
  IN  [fn |-> fn, pc |-> "loop", nextIdx |-> NoDesc, length |-> 0,
       oldTail |-> g_rxTail, k |-> k,
       lens |-> [i \in 1..k |-> g_rxDescs[(g_rxTail + i) % RX_DESC_COUNT].Length],
       calls |-> 0, inOrder |-> TRUE, hw |-> FALSE,
       count0 |-> g_rxPacketCount, seen |-> Len(delivered)]

Top == stack[Len(stack)]
SetTop(frame) == [stack EXCEPT ![Len(stack)] = frame]
Pop == SubSeq(stack, 1, Len(stack) - 1)

\* mutant: the new tail is not written to RDT
RxFinish_NoDoorbell(nextIdx) ==
  /\ g_rxDescs' = [g_rxDescs EXCEPT ![nextIdx] = RxDescCleared(@)]
  /\ g_rxTail' = nextIdx
  /\ regs' = regs

\* mutant: the descriptor is handed back without being cleared
RxFinish_KeepsDescriptor(nextIdx) ==
  /\ g_rxDescs' = g_rxDescs
  /\ g_rxTail' = nextIdx
  /\ regs' = [regs EXCEPT !.RDT = nextIdx]

\* the statements of the loop after the callback: the descriptor is cleared and
\* given back to the hardware through RDT
RxFinish(nextIdx) ==
  /\ g_rxDescs' = [g_rxDescs EXCEPT ![nextIdx] = RxDescCleared(@)]
  /\ g_rxTail' = nextIdx
  /\ regs' = [regs EXCEPT !.RDT = nextIdx]

\* One pass from the head of the loop (of PollRx or of HandleInterrupt): leave
\* the loop when the next descriptor is not done; else count the frame and
\* invoke the callback, or finish the iteration at once when there is none.
RxDrainStep ==
  /\ stack # <<>> /\ Top.pc = "loop"
  /\ LET nextIdx == NextRxIdx(g_rxTail)
         desc == g_rxDescs[nextIdx]
     IN  IF ~RxDescDone(desc)
         THEN /\ stack' = Pop
              /\ g_polling' = IF Top.fn = "PollRx" THEN FALSE ELSE g_polling
              /\ op' = Op(Top.fn, "return", NullData, Top.calls, nextIdx, Top.oldTail)
              /\ UNCHANGED <<rxVars, regs, g_rxPacketCount, lastDelivered, dropped, delivered>>
         ELSE /\ g_rxPacketCount' = CountUp(g_rxPacketCount)
              /\ IF g_rxCallback # NoCallback
                 THEN /\ stack' = SetTop([Top EXCEPT
                            !.pc = "cb", !.nextIdx = nextIdx, !.length = desc.Length,
                            !.calls = @ + 1,
                            !.inOrder = /\ @ /\ Top.calls < Top.k
                                        /\ nextIdx = (Top.oldTail + Top.calls + 1) % RX_DESC_COUNT
                                        /\ desc.Length = Top.lens[Top.calls + 1]])
                      /\ lastDelivered' = nextIdx
                      /\ delivered' = Append(delivered, nextIdx)
                      /\ op' = Op("Callback", Top.fn, nextIdx, desc.Length, nextIdx, "void")
                      /\ UNCHANGED <<rxVars, regs, g_polling, dropped>>
                 ELSE /\ RxFinish(nextIdx)
                      /\ dropped' = TRUE
                      /\ op' = Op("RxFinish", Top.fn, NullData, 0, nextIdx, "dropped")
                      /\ UNCHANGED <<stack, g_polling, lastDelivered, delivered>>
  /\ UNCHANGED <<cfgVars, txVars, g_txPacketCount, g_rxCallback, nSent, nCbSent, nFrames>>

\* the callback returns to the drain that invoked it
CallbackReturn ==
  /\ InCallback
  /\ RxFinish(Top.nextIdx)
  /\ stack' = SetTop([Top EXCEPT !.pc = "loop"])
  /\ op' = Op("RxFinish", Top.fn, NullData, 0, Top.nextIdx, "delivered")
  /\ UNCHANGED <<cfgVars, txVars, g_rxPacketCount, g_txPacketCount, g_rxCallback, g_polling,
                 nSent, nCbSent, nFrames, lastDelivered, dropped, delivered>>

\* mutant: the reentrancy flag is taken before the initialized check
Poll_FlagBeforeCheck ==
  /\ g_polling' = TRUE
  /\ stack' = IF g_initialized /\ ~g_polling THEN Append(stack, NewDrain("PollRx")) ELSE stack
  /\ op' = Op("Poll", Ctx, NullData, 0, NoDesc,
              IF ~g_initialized THEN "uninitialized"
              ELSE IF g_polling THEN "reentrant" ELSE "drain")
  /\ UNCHANGED <<cfgVars, rxVars, txVars, regs, g_rxPacketCount, g_txPacketCount,
                 g_rxCallback, nSent, nCbSent, nFrames, lastDelivered, dropped, delivered>>

\* mutant: PollRx enters its loop without setting the flag
Poll_FlagNotSet ==
  /\ IF ~g_initialized
     THEN /\ op' = Op("Poll", Ctx, NullData, 0, NoDesc, "uninitialized")
          /\ UNCHANGED <<stack, g_polling>>
     ELSE IF g_polling
     THEN /\ op' = Op("Poll", Ctx, NullData, 0, NoDesc, "reentrant")
          /\ UNCHANGED <<stack, g_polling>>
     ELSE /\ UNCHANGED g_polling
          /\ stack' = Append(stack, NewDrain("PollRx"))
          /\ op' = Op("Poll", Ctx, NullData, 0, NoDesc, "drain")
  /\ UNCHANGED <<cfgVars, rxVars, txVars, regs, g_rxPacketCount, g_txPacketCount,
                 g_rxCallback, nSent, nCbSent, nFrames, lastDelivered, dropped, delivered>>

\* Poll: nothing on an uninitialized driver; PollRx: nothing while g_polling is
\* set, else set it and enter the loop
Poll ==
  /\ IF ~g_initialized
     THEN /\ op' = Op("Poll", Ctx, NullData, 0, NoDesc, "uninitialized")
          /\ UNCHANGED <<stack, g_polling>>
     ELSE IF g_polling
     THEN /\ op' = Op("Poll", Ctx, NullData, 0, NoDesc, "reentrant")
          /\ UNCHANGED <<stack, g_polling>>
     ELSE /\ g_polling' = TRUE
          /\ stack' = Append(stack, NewDrain("PollRx"))
          /\ op' = Op("Poll", Ctx, NullData, 0, NoDesc, "drain")
  /\ UNCHANGED <<cfgVars, rxVars, txVars, regs, g_rxPacketCount, g_txPacketCount,
                 g_rxCallback, nSent, nCbSent, nFrames, lastDelivered, dropped, delivered>>

\* a caller thread calls Poll
CallPoll == AtTop /\ Poll

\* the RX callback calls Poll (a reply that waits for an answer)
CallbackPoll == InCallback /\ Len(stack) < MaxDepth /\ Poll

\* values of the interrupt-cause register at a dispatch
IcrValues == { {}, {ICR_TXDW}, {ICR_TXQE}, {ICR_LSC}, {ICR_RXDMT0}, {ICR_RXT0},
               {ICR_RXT0, ICR_LSC, ICR_TXDW, ICR_TXQE} }

\* mutant: the loop is entered on any cause
HandleInterrupt_DrainOnAnyCause(icr) ==
  /\ irqHandler # {} /\ stack = <<>>
  /\ IF icr = {}
     THEN /\ op' = Op("HandleInterrupt", "irq", "spurious", 0, NoDesc, icr)
          /\ UNCHANGED stack
     ELSE /\ stack' = Append(stack, NewDrain("HandleInterrupt"))
          /\ op' = Op("HandleInterrupt", "irq", "drain", 0, NoDesc, icr)
  /\ UNCHANGED <<cfgVars, rxVars, txVars, regs, g_rxPacketCount, g_txPacketCount,
                 g_rxCallback, g_polling, nSent, nCbSent, nFrames, lastDelivered, dropped, delivered>>

\* HandleInterrupt, dispatched by the platform while no driver code runs; icr
\* is the value it reads from the interrupt-cause register
HandleInterrupt(icr) ==
  /\ irqHandler # {} /\ stack = <<>>
  /\ IF icr = {}
     THEN /\ op' = Op("HandleInterrupt", "irq", "spurious", 0, NoDesc, icr)
          /\ UNCHANGED stack
     ELSE IF ICR_RXT0 \in icr
     THEN /\ stack' = Append(stack, NewDrain("HandleInterrupt"))
          /\ op' = Op("HandleInterrupt", "irq", "drain", 0, NoDesc, icr)
     ELSE /\ op' = Op("HandleInterrupt", "irq", "no-rx", 0, NoDesc, icr)
          /\ UNCHANGED stack
  /\ UNCHANGED <<cfgVars, rxVars, txVars, regs, g_rxPacketCount, g_txPacketCount,
                 g_rxCallback, g_polling, nSent, nCbSent, nFrames, lastDelivered, dropped, delivered>>

Dispatch == \E icr \in IcrValues : HandleInterrupt(icr)

\* SetRxCallback, called by the network stack
SetRxCallback(callback) ==
  /\ AtTop /\ callback # g_rxCallback
  /\ g_rxCallback' = callback
  /\ op' = Op("SetRxCallback", "top", callback, 0, NoDesc, "void")
  /\ UNCHANGED <<cfgVars, rxVars, txVars, regs, g_rxPacketCount, g_txPacketCount,
                 g_polling, stack, nSent, nCbSent, nFrames, lastDelivered, dropped, delivered>>

\* the receiver fills the descriptor at RDH, up to but not including RDT, and
\* sets its DD bit
RxHwReceive(limit) ==
  /\ RCTL_EN \in regs.RCTL
  /\ regs.RDH # regs.RDT
  /\ nFrames < limit
  /\ g_rxDescs' = [g_rxDescs EXCEPT ![regs.RDH] =
                     [@ EXCEPT !.Status = {RXSTA_DD, RXSTA_EOP}, !.Length = FrameLength(nFrames)]]
  /\ regs' = [regs EXCEPT !.RDH = (@ + 1) % RX_DESC_COUNT]
  /\ nFrames' = nFrames + 1
  /\ stack' = [i \in 1..Len(stack) |-> [stack[i] EXCEPT !.hw = TRUE]]
  /\ op' = Op("RxHwFill", "hw", NullData, FrameLength(nFrames), regs.RDH, "void")
  /\ UNCHANGED <<cfgVars, g_rxTail, txVars, g_rxPacketCount, g_txPacketCount,
                 g_rxCallback, g_polling, nSent, nCbSent, lastDelivered, dropped, delivered>>

RxHwFill == RxHwReceive(MaxFrames)

NextRx ==
  \/ Initialize
  \/ SetRxCallback(OnFrameReceived) \/ SetRxCallback(NoCallback)
  \/ CallPoll \/ Dispatch \/ RxDrainStep
  \/ CallbackPoll \/ CallbackSendPacket \/ CallbackReturn
  \/ RxHwFill \/ TxHwComplete
SpecRx == InitNominal /\ [][NextRx]_vars


(* ---------------- callers of a driver that may have found no device ---------------- *)
\* a device that answers at once, behind each of the enumerated device lists
MisuseProfiles ==
  { d \in DeviceProfiles :
      /\ d.smbiAt = 1 /\ d.swflagAt = 1 /\ d.rstClearsAt = 1
      /\ d.mdicReadyAt = 1 /\ ~d.mdicError /\ d.phyResetClearsAt = 2
      /\ d.eerdDoneAt = 1 /\ d.ral = RalProgrammed
      /\ <<d.msi, d.irqLine>> \in {<<"msi64", 11>>, <<"none", NoIrqLine>>} }

InitMisuse == InitOver(MisuseProfiles)
NextMisuse == Initialize \/ CallSendPacket \/ CallPoll \/ RxDrainStep
SpecMisuse == InitMisuse /\ [][NextMisuse]_vars

(* ======================= properties ======================= *)
\* the step is a SendPacket call on an initialized driver
SendStep == op'.name = "SendPacket" /\ g_initialized

\* C1: on an initialized driver, a SendPacket call with non-null data and
\* 1 <= length <= 1518 that finds the DD bit of the descriptor at the tail set
\* returns true, moves g_txTail and TDT to (oldTail + 1) mod 32, and leaves the
\* descriptor at oldTail with that length, the command EOP | IFCS | RS and DD
\* clear; and a clear DD bit of a TX descriptor is set by the hardware only.
C1_SendAccepted ==
  [][ /\ ( /\ SendStep /\ ValidInput(op'.data, op'.length)
           /\ TXSTA_DD \in g_txDescs[g_txTail].Status )
         => /\ op'.ret = TRUE
            /\ g_txTail' = (g_txTail + 1) % 32
            /\ regs'.TDT = (g_txTail + 1) % 32
            /\ g_txDescs'[g_txTail].Length = op'.length
            /\ g_txDescs'[g_txTail].Command = {TXCMD_EOP, TXCMD_IFCS, TXCMD_RS}
            /\ TXSTA_DD \notin g_txDescs'[g_txTail].Status
            /\ g_txBuffers'[g_txTail] = [data |-> op'.data, length |-> op'.length]
      /\ g_initialized =>
           \A i \in 0..(TX_DESC_COUNT - 1) :
             (TXSTA_DD \notin g_txDescs[i].Status /\ TXSTA_DD \in g_txDescs'[i].Status)
               => op'.name = "TxHwComplete" /\ op'.idx = i
    ]_vars

\* C1 witness: the send into slot 31 was accepted, the tail has wrapped to 0
\* and the descriptor waits for the hardware
C1_Witness ==
  /\ op.name = "SendPacket" /\ op.ret = TRUE /\ op.idx = TX_DESC_COUNT - 1
  /\ g_txDescs[TX_DESC_COUNT - 1].Length = op.length
  /\ g_txTail = 0 /\ regs.TDT = 0
  /\ TXSTA_DD \notin g_txDescs[TX_DESC_COUNT - 1].Status

\* C2: SendPacket returns false and leaves g_txTail, TDT, every TX descriptor,
\* every TX buffer and the TX counter as they were when data is null, length is
\* 0, length exceeds 1518, or the descriptor at the tail has DD clear.
C2_SendRejected ==
  [][ ( /\ op'.name = "SendPacket"
        /\ \/ op'.data = NullData \/ op'.length = 0 \/ op'.length > 1518
           \/ (g_initialized /\ TXSTA_DD \notin g_txDescs[g_txTail].Status) )
      => /\ op'.ret = FALSE
         /\ g_txTail' = g_txTail /\ regs'.TDT = regs.TDT
         /\ g_txDescs' = g_txDescs /\ g_txBuffers' = g_txBuffers
         /\ g_txPacketCount' = g_txPacketCount
    ]_vars

\* C2 witness: a valid frame was refused because the ring was full
C2_Witness ==
  /\ op.name = "SendPacket" /\ op.ret = FALSE /\ ValidInput(op.data, op.length)
  /\ g_initialized /\ op.idx = g_txTail
  /\ TXSTA_DD \notin g_txDescs[g_txTail].Status

\* C7: counted from ring setup, the first 32 valid SendPacket calls return true
\* whatever the hardware has completed; every later valid call returns true
\* exactly if the descriptor at the tail has its DD bit set, so with nothing
\* completed it returns false.
C7_First32ThenFull ==
  [][ (SendStep /\ ValidInput(op'.data, op'.length))
      => /\ nSent < 32 => op'.ret = TRUE
         /\ nSent >= 32 => (op'.ret = TRUE <=> TXSTA_DD \in g_txDescs[g_txTail].Status)
         /\ (nSent = 32 /\ \A i \in 0..31 : TXSTA_DD \notin g_txDescs[i].Status)
              => op'.ret = FALSE
    ]_vars

\* C7 witness: the 33rd call, after 32 accepted frames of which the hardware
\* completed none, was refused
C7_Witness ==
  /\ op.name = "SendPacket" /\ op.ret = FALSE /\ ValidInput(op.data, op.length)
  /\ nSent = 32 /\ g_txPacketCount = 32 /\ regs.TDH = 0 /\ g_txTail = 0
  /\ \A i \in 0..31 : TXSTA_DD \notin g_txDescs[i].Status


\* the step leaves the while loop of the innermost drain, which then returns
DrainExit == stack # <<>> /\ Top.pc = "loop" /\ Len(stack') < Len(stack)

\* C3: a drain (by HandleInterrupt or by PollRx) that started with exactly k
\* consecutive done descriptors after the tail, during which the hardware
\* completed none, has invoked the registered callback exactly k times, the
\* i-th time with descriptor (oldTail + i) mod 32 and its recorded length, and
\* returns with g_rxTail and RDT equal to (oldTail + k) mod 32.
C3_DrainDeliversRun ==
  [][ (DrainExit /\ ~Top.hw /\ g_rxCallback # NoCallback)
      => /\ Top.calls = Top.k /\ Top.inOrder
         /\ g_rxTail' = (Top.oldTail + Top.k) % 32
         /\ regs'.RDT = (Top.oldTail + Top.k) % 32
    ]_vars

\* C4: a Poll() made by the RX callback while a drain is invoking it returns
\* at once (it starts no drain), and nothing that runs inside the callback
\* changes g_rxTail, RDT or an RX descriptor.
C4_NestedPollNoOp ==
  [][ /\ (op'.name = "Poll" /\ op'.ctx = "callback")
         => /\ stack' = stack
            /\ g_rxTail' = g_rxTail /\ regs'.RDT = regs.RDT /\ g_rxDescs' = g_rxDescs
      /\ (Len(stack) >= 2 /\ op'.ctx # "hw")
         => g_rxTail' = g_rxTail /\ regs'.RDT = regs.RDT /\ g_rxDescs' = g_rxDescs
    ]_vars

\* C5: software writes a descriptor or its buffer only when the DD bit of that
\* descriptor is set: SendPacket changes a TX slot only if its DD bit was set,
\* and a drain clears an RX descriptor only if its DD bit was set.
C5_WritesOnlyWhenDone ==
  [][ /\ (g_initialized /\ op'.ctx # "hw")
         => \A i \in 0..(TX_DESC_COUNT - 1) :
              (g_txDescs'[i] # g_txDescs[i] \/ g_txBuffers'[i] # g_txBuffers[i])
                => TXSTA_DD \in g_txDescs[i].Status
      /\ op'.name = "RxFinish" => RXSTA_DD \in g_rxDescs[op'.idx].Status
    ]_vars

\* C6: the callback is given the RX descriptors in ring order: the first index
\* after ring setup is 0 and each later one is the successor modulo 32 of the
\* one before.  Stated for the behaviours in which no descriptor was consumed
\* while no callback was registered.
C6_StrictRingOrder ==
  [][ (op'.name = "Callback" /\ ~dropped)
      => op'.idx = IF lastDelivered = NoDesc THEN 0 ELSE (lastDelivered + 1) % 32
    ]_vars

\* the first frame after ring setup: a Poll() of a caller thread that found
\* descriptor 0 done with length 64, everything else as SetupRx left it
FirstFramePoll ==
  /\ Len(stack) = 1 /\ Top.fn = "PollRx" /\ ~Top.hw /\ nFrames = 1
  /\ Top.oldTail = 31 /\ Top.k = 1 /\ Top.lens[1] = 64
  /\ g_rxCallback # NoCallback

\* C8: SetupRx leaves RDH 0, RDT and g_rxTail 31 and every RX status 0; when
\* the hardware then completes descriptor 0 with length 64, one Poll() invokes
\* the callback once, with buffer 0 and length 64, and returns with g_rxTail
\* and RDT equal to 0.
C8_FirstFrameEndToEnd ==
  [][ /\ (op'.name = "Initialize" /\ op'.ret[1] = "SetupRx")
         => /\ regs'.RDH = 0 /\ regs'.RDT = 31 /\ g_rxTail' = 31
            /\ \A i \in 0..31 : g_rxDescs'[i].Status = {}
      /\ (FirstFramePoll /\ op'.name = "Callback")
         => op'.data = 0 /\ op'.length = 64 /\ Top.calls = 0
      /\ (FirstFramePoll /\ DrainExit)
         => Top.calls = 1 /\ g_rxTail' = 0 /\ regs'.RDT = 0
    ]_vars

\* C8 witness: that Poll() has returned: one callback, tail and RDT at 0
C8_Witness ==
  /\ op.name = "PollRx" /\ op.ctx = "return" /\ op.ret = 31 /\ op.length = 1
  /\ stack = <<>> /\ nFrames = 1 /\ lastDelivered = 0
  /\ g_rxTail = 0 /\ regs.RDT = 0 /\ regs.RDH = 1

\* no enumerated device is an Intel device of the identity table
NoSupportedDevice ==
  \A i \in 1..Len(dev.devices) :
    ~(dev.devices[i].VendorId = 32902 /\ dev.devices[i].DeviceId \in g_deviceTable)

\* C9: once a supported device is found, Initialize runs to its end and marks
\* the driver initialized, whatever the device registers answer.
C9_InitializeCompletes ==
  (op.name = "Initialize" /\ op.ret = <<"Scan", "found">>)
    ~> (IsInitialized /\ initPc = "idle")

\* C9 witness: initialized although the semaphore, the reset bit, the PHY and
\* the EEPROM all timed out
C9_Witness ==
  /\ IsInitialized
  /\ dev.smbiAt > SemaphoreCeiling /\ dev.rstClearsAt > ResetCeiling
  /\ dev.mdicReadyAt > MdicCeiling /\ dev.eerdDoneAt > EerdCeiling /\ dev.ral = 0
  /\ CTRL_RST \in regs.CTRL /\ g_macAddress = <<0, 0, 0, 0, 0, 0>>

\* C10: with no supported device enumerated, a call of Initialize returns
\* leaving every device register, the PCI configuration space and the driver
\* state as they were, IsInitialized() false; and so does the next call.
C10_NoDeviceNoEffect ==
  [][ (op'.name = "Initialize" /\ NoSupportedDevice)
      => /\ op'.ret = <<"Scan", "no-device">>
         /\ ~IsInitialized' /\ initPc' = "idle"
         /\ UNCHANGED <<driverVars, rxVars, txVars, devVars>>
    ]_vars

\* C10 witness: the second call of Initialize over a bus that holds only an
\* unsupported device has returned
C10_Witness ==
  /\ op.name = "Initialize" /\ op.ret = <<"Scan", "no-device">>
  /\ nInit = 2 /\ Len(dev.devices) > 0 /\ ~IsInitialized /\ g_mmioBase = "nullptr"


\* C11: while g_initialized is false (Initialize not called yet, or returned
\* having found no device) SendPacket returns false for every input and Poll
\* returns at once, and neither changes a descriptor, a buffer, a tail index,
\* a counter, the reentrancy flag or a device register.
C11_UninitializedNoEffect ==
  [][ (~g_initialized /\ op'.name \in {"SendPacket", "Poll"})
      => /\ op'.name = "SendPacket" => op'.ret = FALSE
         /\ op'.name = "Poll" => op'.ret = "uninitialized"
         /\ UNCHANGED <<driverVars, rxVars, txVars, devVars, stack, g_polling,
                        g_rxPacketCount, g_txPacketCount, g_rxCallback>>
    ]_vars

\* C11 witness: after Initialize found no supported device, a valid frame was
\* refused
C11_Witness ==
  /\ op.name = "SendPacket" /\ op.ret = FALSE /\ ValidInput(op.data, op.length)
  /\ ~g_initialized /\ nInit >= 1 /\ NoSupportedDevice /\ g_txDescs = NullRing


\* C12: the interrupt strategy step of Initialize picks one tier: MSI when the
\* device has the MSI capability; else the legacy line when the interrupt line
\* read from configuration space is not 0xFF; else polling.  g_pollingMode is
\* set in the third case only, a dispatch routine is registered in the first
\* two only (on slot MSI_IRQ, on the legacy line), and nothing else changes
\* either of them.
C12_OneInterruptTier ==
  [][ /\ (op'.name = "Initialize" /\ op'.ret[1] = "IrqStrategy")
         => /\ dev.msi # "none"
                 => op'.ret[2] = "msi" /\ irqHandler' = {MSI_IRQ} /\ ~g_pollingMode'
            /\ (dev.msi = "none" /\ dev.irqLine # 255)
                 => op'.ret[2] = "legacy" /\ irqHandler' = {dev.irqLine} /\ ~g_pollingMode'
            /\ (dev.msi = "none" /\ dev.irqLine = 255)
                 => op'.ret[2] = "polling" /\ irqHandler' = {} /\ g_pollingMode'
      /\ ~(op'.name = "Initialize" /\ op'.ret[1] = "IrqStrategy")
         => irqHandler' = irqHandler /\ g_pollingMode' = g_pollingMode
    ]_vars

\* C12 witness: an initialized driver in the legacy tier: no MSI capability,
\* the routine registered on line 11, not polling
C12_Witness ==
  /\ g_initialized /\ dev.msi = "none" /\ g_irqLine = 11
  /\ irqHandler = {11} /\ ~g_pollingMode /\ ICR_RXT0 \in regs.IMS


\* Initialize is between the end of AcquireSwFwSync and ReleaseSwFwSync: it is
\* about to set CTRL.RST, or has set it and waits for the reset to complete
InResetSection == initPc \in {"Reset", "Release"}

\* C13 as stated: whenever Initialize asserts the reset bit, and until it
\* releases the semaphore, the driver holds SMBI and SWFLAG and the firmware
\* holds neither.
C13_ResetUnderSemaphore ==
  InResetSection => acq.smbi /\ acq.swflag /\ ~fw.smbi /\ ~fw.swflag

\* C13 amended: arbitration is best effort.  Initialize goes on to the reset
\* whatever AcquireSwFwSync returned.  When it returned true, and the firmware
\* took neither bit between the driver's read that found it clear and the
\* driver's verifying read, then until the release both bits are set, the
\* driver holds both and the firmware neither.  When it returned false the
\* driver holds neither bit during the reset.
C13_BestEffortArbitration ==
  InResetSection =>
    /\ acq.ret \in {"true", "false"}
    /\ (acq.ret = "true" /\ ~acq.raced)
         => /\ acq.smbi /\ acq.swflag /\ ~fw.smbi /\ ~fw.swflag
            /\ SemSet(regs, "smbi") /\ SemSet(regs, "swflag")
    /\ acq.ret = "false" => ~acq.smbi /\ ~acq.swflag

\* C13 witness: the reset was made under the semaphore, and the firmware, which
\* held SWFLAG when the driver first looked, asked for it again and was refused
C13_Witness ==
  /\ initPc = "Release" /\ acq.ret = "true" /\ ~acq.raced
  /\ dev.swflagAt > 1
  /\ op.name = "Firmware" /\ op.ret = <<"refused", "swflag">>


\* C14: against a device that never sets the done bit of EERD, EepromRead
\* returns 0 after exactly 10,000 reads of the register; against one that never
\* sets the ready bit of MDIC, PhyRead returns 0 after exactly 200,000 reads.
\* Neither blocks: the loop counter stays below the ceiling, every pass
\* returns or counts it up by one, and the reads made equal the passes; the
\* result and the number of reads are those of EepromRead and PhyRead above.
C14_BoundedPolling ==
  [][ /\ (op'.name = "EepromRead" /\ op'.ctx = "return" /\ dev.eerdDoneAt > 10000)
         => op'.ret = 0 /\ op'.length = 10000
      /\ (op'.name = "PhyRead" /\ op'.ctx = "return" /\ dev.mdicReadyAt > 200000)
         => op'.ret = {} /\ op'.length = 200000
      /\ (op'.name \in {"EepromRead", "PhyRead"} /\ op'.ctx = "poll")
         => /\ stack'[1].i = stack[1].i + 1 /\ stack'[1].reads = stack'[1].i
            /\ stack'[1].i < (IF op'.name = "EepromRead" THEN 10000 ELSE 200000)
      /\ (op'.name \in {"EepromRead", "PhyRead"} /\ op'.ctx = "return")
         => /\ op'.length <= (IF op'.name = "EepromRead" THEN 10000 ELSE 200000)
            /\ op'.name = "EepromRead"
                 => /\ op'.length = EepromRead(op'.data, dev).polls
                    /\ op'.ret = EepromRead(op'.data, dev).value
            /\ op'.name = "PhyRead"
                 => /\ op'.length = PhyRead(op'.data, phyRegs, dev).polls
                    /\ op'.ret = PhyRead(op'.data, phyRegs, dev).value
    ]_vars

\* C14 witness: PhyRead of a register holding a non-zero value has returned 0
\* from a device that never answered
C14_Witness ==
  /\ op.name = "PhyRead" /\ op.ctx = "return" /\ op.ret = {} /\ op.length = 200000
  /\ dev.mdicReadyAt > MdicCeiling /\ phyRegs[op.data] # {} /\ stack = <<>>


\* the word EepromRead gives for an address: the EEPROM word, or 0 on a timeout
WordRead(address) == IF dev.eerdDoneAt <= EerdCeiling THEN EepromWords[address + 1] ELSE 0

\* C15: ReadMacAddress.  RAL non-zero: the six bytes are RAL's four bytes,
\* least significant first, then RAH's two low bytes.  RAL zero: they are
\* the words EepromRead gave for addresses 0, 1, 2, low byte first.  Then RAL
\* holds bytes 0-3 packed little-endian, RAH bytes 4-5 and the Address-Valid
\* bit, and GetMacAddress returns the six bytes, for the rest of the run.
C15_MacResolution ==
  [][ /\ (op'.name = "Initialize" /\ op'.ret[1] = "Mac")
         => LET mac == GetMacAddress'
            IN  /\ \A k \in 1..6 : mac[k] \in 0..255
                /\ regs.RAL # 0
                     => /\ mac[1] + 256 * mac[2] + 65536 * mac[3] + 16777216 * mac[4] = regs.RAL
                        /\ mac[5] + 256 * mac[6] = regs.RAH.low % 65536
                /\ regs.RAL = 302011474 /\ regs.RAH.low = 22068
                     => mac = <<82, 84, 0, 18, 52, 86>>
                /\ regs.RAL = 0
                     => /\ mac[1] + 256 * mac[2] = WordRead(0)
                        /\ mac[3] + 256 * mac[4] = WordRead(1)
                        /\ mac[5] + 256 * mac[6] = WordRead(2)
                /\ regs.RAL = 0 /\ dev.eerdDoneAt = 1 => mac = <<2, 0, 94, 16, 32, 48>>
                /\ regs'.RAL = mac[1] + 256 * mac[2] + 65536 * mac[3] + 16777216 * mac[4]
                /\ regs'.RAH = [low |-> mac[5] + 256 * mac[6], av |-> TRUE]
      /\ (initPc \in {"Mta", "SetupRx", "SetupTx", "IrqStrategy", "Finish"} \/ g_initialized)
         => /\ GetMacAddress' = GetMacAddress
            /\ regs'.RAL = regs.RAL /\ regs'.RAH = regs.RAH
    ]_vars

\* C15 witness: an initialized driver whose address came from the EEPROM:
\* 02:00:5E:10:20:30, written back to RAL/RAH with Address-Valid
C15_Witness ==
  /\ g_initialized /\ dev.ral = 0
  /\ GetMacAddress = <<2, 0, 94, 16, 32, 48>>
  /\ regs.RAL = 2 + 94 * 65536 + 16 * 16777216
  /\ regs.RAH = [low |-> 32 + 48 * 256, av |-> TRUE]


\* the configuration-space writes of the step, in order
NewPciWrites == SubSeq(pci'.written, Len(pci.written) + 1, Len(pci'.written))
PciWrote(w) == \E k \in 1..Len(NewPciWrites) : NewPciWrites[k] = w
\* some write of the step goes to this offset
PciWroteAt(offset) == \E k \in 1..Len(NewPciWrites) : NewPciWrites[k][2] = offset

\* C16: SetupMsi on a capability at cap.  Message-control bit 7 set: 0 is
\* written (32 bits) at cap+8 and the vector 56 (16 bits) at cap+12.  Bit 7
\* clear: the vector is written (16 bits) at cap+8 and nothing at cap+12.  In
\* both cases message control is written back at cap+2 with bits 6:4 clear and
\* bit 0 set, the rest as read, and the command register ends with bit 10 set.
C16_MsiSetup ==
  [][ (op'.name = "Initialize" /\ op'.ret[1] = "IrqStrategy" /\ dev.msi # "none")
      => LET cap == 208
             ctrlRead == pci.msgCtrl
         IN  /\ op'.ret[2] = "msi"
             /\ 7 \in ctrlRead
                  => /\ PciWrote(<<32, cap + 8, 0>>) /\ PciWrote(<<16, cap + 12, 56>>)
                     /\ ~PciWrote(<<16, cap + 8, 56>>)
             /\ 7 \notin ctrlRead
                  => /\ PciWrote(<<16, cap + 8, 56>>)
                     /\ ~PciWroteAt(cap + 12)
             /\ (7 \in ctrlRead) = (dev.msi = "msi64")
             /\ PciWrote(<<16, cap + 2, pci'.msgCtrl>>)
             /\ pci'.msgCtrl \cap {4, 5, 6} = {} /\ 0 \in pci'.msgCtrl
             /\ pci'.msgCtrl \ {0} = ctrlRead \ {0, 4, 5, 6}
             /\ 10 \in pci'.command /\ pci.command \subseteq pci'.command
             /\ NewPciWrites[Len(NewPciWrites)] = <<16, 4, pci'.command>>
    ]_vars

\* C16 witness: MSI was set up on a 64-bit capable capability that had a
\* multiple-message-enable bit set: the vector went to cap+12 = 220
C16_Witness ==
  /\ g_initialized /\ dev.msi = "msi64"
  /\ pci.msgCtrl = {0, 7} /\ 10 \in pci.command
  /\ \E k \in 1..Len(pci.written) : pci.written[k] = <<16, 220, 56>>


\* both rings have been set up
RingsSetUp == g_rxDescs # NullRing /\ g_txDescs # NullRing

ThreadPcs == {"head", "check", "call", "callback", "clear", "tail", "doorbell"}

\* the thread runs (no dispatch is active) at this position of PollRx's loop
ThreadAt(pc) == Len(stack) = 1 /\ Top.fn = "PollRx" /\ Top.pc = pc

threadFrame == <<cfgVars, txVars, g_txPacketCount, g_rxCallback, nSent, nCbSent, nFrames>>

\* Poll() of a caller thread, up to the head of the loop
PollEnter ==
  /\ AtTop /\ g_initialized /\ ~g_polling
  /\ g_polling' = TRUE
  /\ stack' = << [NewDrain("PollRx") EXCEPT !.pc = "head"] >>
  /\ op' = Op("Poll", "top", NullData, 0, NoDesc, "drain")
  /\ UNCHANGED <<threadFrame, rxVars, regs, g_rxPacketCount, lastDelivered, dropped, delivered>>

PollRxHead ==
  /\ ThreadAt("head")
  /\ stack' = SetTop([Top EXCEPT !.pc = "check", !.nextIdx = NextRxIdx(g_rxTail)])
  /\ op' = Op("PollRx", "head", NullData, 0, NextRxIdx(g_rxTail), "void")
  /\ UNCHANGED <<threadFrame, rxVars, regs, g_rxPacketCount, g_polling,
                 lastDelivered, dropped, delivered>>

PollRxCheck ==
  /\ ThreadAt("check")
  /\ IF ~RxDescDone(g_rxDescs[Top.nextIdx])
     THEN /\ stack' = <<>>
          /\ g_polling' = FALSE
          /\ op' = Op("PollRx", "return", NullData, Top.calls, Top.nextIdx, Top.oldTail)
          /\ UNCHANGED g_rxPacketCount
     ELSE /\ stack' = SetTop([Top EXCEPT !.pc = "call",
                                         !.length = g_rxDescs[Top.nextIdx].Length])
          /\ g_rxPacketCount' = CountUp(g_rxPacketCount)
          /\ op' = Op("PollRx", "check", NullData, 0, Top.nextIdx, "done")
          /\ UNCHANGED g_polling
  /\ UNCHANGED <<threadFrame, rxVars, regs, lastDelivered, dropped, delivered>>

PollRxCall ==
  /\ ThreadAt("call")
  /\ IF g_rxCallback # NoCallback
     THEN /\ stack' = SetTop([Top EXCEPT !.pc = "callback", !.calls = @ + 1])
          /\ lastDelivered' = Top.nextIdx
          /\ delivered' = Append(delivered, Top.nextIdx)
          /\ op' = Op("Callback", "PollRx", Top.nextIdx, Top.length, Top.nextIdx, "void")
          /\ UNCHANGED dropped
     ELSE /\ stack' = SetTop([Top EXCEPT !.pc = "clear"])
          /\ dropped' = TRUE
          /\ op' = Op("PollRx", "call", NullData, 0, Top.nextIdx, "dropped")
          /\ UNCHANGED <<lastDelivered, delivered>>
  /\ UNCHANGED <<threadFrame, rxVars, regs, g_rxPacketCount, g_polling>>

PollRxCallbackReturn ==
  /\ ThreadAt("callback")
  /\ stack' = SetTop([Top EXCEPT !.pc = "clear"])
  /\ op' = Op("PollRx", "callback", NullData, 0, Top.nextIdx, "returned")
  /\ UNCHANGED <<threadFrame, rxVars, regs, g_rxPacketCount, g_polling,
                 lastDelivered, dropped, delivered>>

PollRxClear ==
  /\ ThreadAt("clear")
  /\ g_rxDescs' = [g_rxDescs EXCEPT ![Top.nextIdx] = RxDescCleared(@)]
  /\ stack' = SetTop([Top EXCEPT !.pc = "tail"])
  /\ op' = Op("PollRx", "clear", NullData, 0, Top.nextIdx, "void")
  /\ UNCHANGED <<threadFrame, g_rxTail, regs, g_rxPacketCount, g_polling,
                 lastDelivered, dropped, delivered>>

PollRxTail ==
  /\ ThreadAt("tail")
  /\ g_rxTail' = Top.nextIdx
  /\ stack' = SetTop([Top EXCEPT !.pc = "doorbell"])
  /\ op' = Op("PollRx", "tail", NullData, 0, Top.nextIdx, "void")
  /\ UNCHANGED <<threadFrame, g_rxDescs, regs, g_rxPacketCount, g_polling,
                 lastDelivered, dropped, delivered>>

PollRxDoorbell ==
  /\ ThreadAt("doorbell")
  /\ regs' = [regs EXCEPT !.RDT = g_rxTail]
  /\ stack' = SetTop([Top EXCEPT !.pc = "head"])
  /\ op' = Op("PollRx", "doorbell", NullData, 0, g_rxTail, "void")
  /\ UNCHANGED <<g_initialized, g_pollingMode, g_mmioBase, g_macAddress, g_irqLine,
                 phyRegs, pci, irqHandler, dev, initPc, nInit, fw, acq,
                 txVars, g_txPacketCount, g_rxCallback, nSent, nCbSent, nFrames,
                 rxVars, g_rxPacketCount, g_polling, lastDelivered, dropped, delivered>>

\* HandleInterrupt with the RX-timer cause, dispatched while the thread is
\* suspended in PollRx's loop
PreemptingDispatch ==
  /\ irqHandler # {}
  /\ Len(stack) = 1 /\ Top.fn = "PollRx" /\ Top.pc \in ThreadPcs
  /\ stack' = Append(stack, NewDrain("HandleInterrupt"))
  /\ op' = Op("HandleInterrupt", "irq", Top.pc, 0, NoDesc, {ICR_RXT0})
  /\ UNCHANGED <<threadFrame, rxVars, regs, g_rxPacketCount, g_polling,
                 lastDelivered, dropped, delivered>>

\* a device with a dispatch routine registered (MSI or the legacy line)
InterruptProfiles == { d \in NominalProfiles : d.msi # "none" \/ d.irqLine # NoIrqLine }

InitPreempt == InitOver(InterruptProfiles)
NextPreempt ==
  \/ Initialize
  \/ SetRxCallback(OnFrameReceived)
  \/ PollEnter \/ PollRxHead \/ PollRxCheck \/ PollRxCall \/ PollRxCallbackReturn
  \/ PollRxClear \/ PollRxTail \/ PollRxDoorbell
  \/ PreemptingDispatch \/ RxDrainStep \/ CallbackReturn
  \/ RxHwFill
SpecPreempt == InitPreempt /\ [][NextPreempt]_vars

\* descriptors consumed when the tail (or RDT) has this value; SetupRx leaves
\* 31, and fewer than 32 frames are received
RingPos(tail) == (tail + 1) % RX_DESC_COUNT

\* C18: with an interrupt dispatch (RX-timer cause) run while a Poll() drain is
\* suspended inside its loop, no completed descriptor is passed to the
\* callback twice, and g_rxTail and RDT never move backwards.
C18_PreemptedPollSafe ==
  [][ g_initialized
      => /\ op'.name = "Callback"
              => \A k \in 1..Len(delivered) : delivered[k] # op'.idx
         /\ RingPos(g_rxTail') >= RingPos(g_rxTail)
         /\ RingPos(regs'.RDT) >= RingPos(regs.RDT)
    ]_vars

\* C18, first half alone: no descriptor is passed to the callback twice
C18_NoDoubleDelivery ==
  [][ (g_initialized /\ op'.name = "Callback")
      => \A k \in 1..Len(delivered) : delivered[k] # op'.idx ]_vars

\* C18, second half alone: g_rxTail and RDT do not move backwards
C18_TailMonotonic ==
  [][ g_initialized
      => /\ RingPos(g_rxTail') >= RingPos(g_rxTail)
         /\ RingPos(regs'.RDT) >= RingPos(regs.RDT) ]_vars


(* ---------------- SendPacket preempted by an interrupt dispatch ---------------- *)
\* One core.  A caller thread runs SendPacket statement by statement; between
\* its check of the DD bit and its write of TDT the platform may dispatch
\* HandleInterrupt, whose RX callback may call SendPacket.
\* Positions of the thread in SendPacket:
\*   "desc"      TxDescriptor& desc = g_txDescs[g_txTail]
\*   "check"     if (!(desc.Status & TXSTA_DD)) return false
\*   "copy"      memcpy(g_txBuffers[g_txTail], data, length)
\*   "fill"      desc.BufferAddress = g_txBuffersPhys[g_txTail]; desc.Length; desc.Command
\*   "status"    desc.Status = 0
\*   "tail"      g_txTail = (g_txTail + 1) % TX_DESC_COUNT
\*   "doorbell"  WriteReg(REG_TDT, g_txTail); g_txPacketCount++; return true
SendPcsAfterCheck == {"copy", "fill", "status", "tail", "doorbell"}

\* the thread runs (no dispatch is active) at this position of SendPacket
SendAt(pc) == Len(stack) = 1 /\ Top.fn = "SendPacket" /\ Top.pc = pc

sendFrame == <<cfgVars, rxVars, g_rxPacketCount, g_rxCallback, g_polling, nCbSent, nFrames,
               lastDelivered, dropped, delivered>>

\* the call, with arguments that pass the first test (a frame other than the
\* one the callback would send).  slot: the descriptor
\* the reference desc is bound to; entryTail, cbSent: g_txTail and the number
\* of sends accepted from the callback, at the call
SendEnter ==
  /\ AtTop /\ g_initialized /\ nSent < MaxThreadSends
  /\ stack' = << [fn |-> "SendPacket", pc |-> "desc", slot |-> NoDesc,
                  data |-> SendData(nSent + 1), length |-> SendLength(nSent + 1),
                  entryTail |-> g_txTail, cbSent |-> nCbSent, hw |-> FALSE] >>
  /\ op' = Op("SendPacket", "call", SendData(nSent + 1), SendLength(nSent + 1), NoDesc, "void")
  /\ UNCHANGED <<sendFrame, txVars, regs, g_txPacketCount, nSent>>

SendDesc ==
  /\ SendAt("desc")
  /\ stack' = SetTop([Top EXCEPT !.pc = "check", !.slot = g_txTail])
  /\ op' = Op("SendPacket", "desc", Top.data, Top.length, g_txTail, "void")
  /\ UNCHANGED <<sendFrame, txVars, regs, g_txPacketCount, nSent>>

SendCheck ==
  /\ SendAt("check")
  /\ IF TxRingFull(g_txDescs, Top.slot)
     THEN /\ stack' = <<>>
          /\ op' = Op("SendPacket", "top", Top.data, Top.length, Top.slot, FALSE)
     ELSE /\ stack' = SetTop([Top EXCEPT !.pc = "copy"])
          /\ op' = Op("SendPacket", "check", Top.data, Top.length, Top.slot, "void")
  /\ UNCHANGED <<sendFrame, txVars, regs, g_txPacketCount, nSent>>

SendCopy ==
  /\ SendAt("copy")
  /\ g_txBuffers' = [g_txBuffers EXCEPT ![g_txTail] = [data |-> Top.data, length |-> Top.length]]
  /\ stack' = SetTop([Top EXCEPT !.pc = "fill"])
  /\ op' = Op("SendPacket", "copy", Top.data, Top.length, g_txTail, "void")
  /\ UNCHANGED <<sendFrame, g_txDescs, g_txTail, regs, g_txPacketCount, nSent>>

SendFill ==
  /\ SendAt("fill")
  /\ g_txDescs' = [g_txDescs EXCEPT ![Top.slot] =
                     [@ EXCEPT !.BufferAddress = TxBufferPhys(g_txTail),
                               !.Length = Top.length,
                               !.Command = {TXCMD_EOP, TXCMD_IFCS, TXCMD_RS}]]
  /\ stack' = SetTop([Top EXCEPT !.pc = "status"])
  /\ op' = Op("SendPacket", "fill", Top.data, Top.length, Top.slot, "void")
  /\ UNCHANGED <<sendFrame, g_txBuffers, g_txTail, regs, g_txPacketCount, nSent>>

SendStatus ==
  /\ SendAt("status")
  /\ g_txDescs' = [g_txDescs EXCEPT ![Top.slot].Status = {}]
  /\ stack' = SetTop([Top EXCEPT !.pc = "tail"])
  /\ op' = Op("SendPacket", "status", Top.data, Top.length, Top.slot, "void")
  /\ UNCHANGED <<sendFrame, g_txBuffers, g_txTail, regs, g_txPacketCount, nSent>>

SendTail ==
  /\ SendAt("tail")
  /\ g_txTail' = NextTxTail(g_txTail)
  /\ stack' = SetTop([Top EXCEPT !.pc = "doorbell"])
  /\ op' = Op("SendPacket", "tail", Top.data, Top.length, Top.slot, "void")
  /\ UNCHANGED <<sendFrame, g_txDescs, g_txBuffers, regs, g_txPacketCount, nSent>>

\* mutant: TDT is written with the tail the call computed, not with g_txTail
SendDoorbell_LocalTail ==
  /\ SendAt("doorbell")
  /\ regs' = [regs EXCEPT !.TDT = NextTxTail(Top.slot)]
  /\ g_txPacketCount' = g_txPacketCount + 1
  /\ nSent' = nSent + 1
  /\ stack' = <<>>
  /\ op' = Op("SendPacket", "top", Top.data, Top.length, Top.slot, TRUE)
  /\ UNCHANGED <<g_initialized, g_pollingMode, g_mmioBase, g_macAddress, g_irqLine,
                 phyRegs, pci, irqHandler, dev, initPc, nInit, fw, acq,
                 rxVars, g_rxPacketCount, g_rxCallback, g_polling, nCbSent, nFrames,
                 lastDelivered, dropped, delivered, txVars>>

\* WriteReg(REG_TDT, g_txTail); g_txPacketCount++; return true
SendDoorbell ==
  /\ SendAt("doorbell")
  /\ regs' = [regs EXCEPT !.TDT = g_txTail]
  /\ g_txPacketCount' = g_txPacketCount + 1
  /\ nSent' = nSent + 1
  /\ stack' = <<>>
  /\ op' = Op("SendPacket", "top", Top.data, Top.length, Top.slot, TRUE)
  /\ UNCHANGED <<g_initialized, g_pollingMode, g_mmioBase, g_macAddress, g_irqLine,
                 phyRegs, pci, irqHandler, dev, initPc, nInit, fw, acq,
                 rxVars, g_rxPacketCount, g_rxCallback, g_polling, nCbSent, nFrames,
                 lastDelivered, dropped, delivered, txVars>>

\* HandleInterrupt with the RX-timer cause, dispatched while the thread is
\* suspended in SendPacket after its DD check and before its TDT write
SendPreemptingDispatch ==
  /\ irqHandler # {}
  /\ Len(stack) = 1 /\ Top.fn = "SendPacket" /\ Top.pc \in SendPcsAfterCheck
  /\ stack' = Append(stack, NewDrain("HandleInterrupt"))
  /\ op' = Op("HandleInterrupt", "irq", Top.pc, 0, NoDesc, {ICR_RXT0})
  /\ UNCHANGED <<sendFrame, txVars, regs, g_txPacketCount, nSent>>

\* the transmitter sends the descriptor at TDH, up to but not including TDT,
\* and sets its DD bit (TDH = TDT: nothing to transmit)
TxHwTransmit ==
  /\ TCTL_EN \in regs.TCTL
  /\ regs.TDH # regs.TDT
  /\ g_txDescs' = [g_txDescs EXCEPT ![regs.TDH].Status = @ \cup {TXSTA_DD}]
  /\ regs' = [regs EXCEPT !.TDH = (@ + 1) % TX_DESC_COUNT]
  /\ op' = Op("TxHwTransmit", "hw", NullData, g_txDescs[regs.TDH].Length, regs.TDH, "void")
  /\ UNCHANGED <<cfgVars, rxVars, g_txBuffers, g_txTail, g_rxPacketCount, g_txPacketCount,
                 g_rxCallback, g_polling, stack, nSent, nCbSent, nFrames,
                 lastDelivered, dropped, delivered>>

InitSendPreempt == InitOver(InterruptProfiles)
NextSendPreempt ==
  \/ Initialize
  \/ SetRxCallback(OnFrameReceived)
  \/ SendEnter \/ SendDesc \/ SendCheck \/ SendCopy \/ SendFill \/ SendStatus
  \/ SendTail \/ SendDoorbell
  \/ SendPreemptingDispatch \/ RxDrainStep \/ CallbackSendPacket \/ CallbackReturn
  \/ RxHwFill \/ TxHwTransmit
SpecSendPreempt == InitSendPreempt /\ [][NextSendPreempt]_vars

\* the step is a SendPacket of the RX callback, run by a dispatch that
\* suspended the thread's SendPacket, and it is accepted
CallbackSendInsideSend ==
  /\ Len(stack) = 2 /\ stack[1].fn = "SendPacket"
  /\ op'.name = "SendPacket" /\ op'.ctx = "callback" /\ op'.ret = TRUE

\* the step is the return of the thread's SendPacket, during which the
\* callback had a send accepted
SendReturnsAfterCallbackSend ==
  /\ SendAt("doorbell") /\ op'.name = "SendPacket" /\ op'.ctx = "top"
  /\ nCbSent = Top.cbSent + 1

\* C19: when the RX callback of an interrupt dispatch has a send accepted
\* while the thread's SendPacket is suspended between its DD check and its TDT
\* write, the callback's send takes another slot than the thread's and leaves
\* the thread's slot and buffer alone; and when the thread's call returns, the
\* tail and TDT are two past the tail at its call, and the two slots hold the
\* two frames: the thread's at the tail of its call, the callback's at the
\* other.
C19_InterleavedSendsDisjoint ==
  [][ /\ CallbackSendInsideSend
         => /\ op'.idx # stack[1].slot
            /\ g_txBuffers'[stack[1].slot] = g_txBuffers[stack[1].slot]
            /\ g_txDescs'[stack[1].slot] = g_txDescs[stack[1].slot]
      /\ SendReturnsAfterCallbackSend
         => /\ g_txTail' = (Top.entryTail + 2) % TX_DESC_COUNT
            /\ regs'.TDT = (Top.entryTail + 2) % TX_DESC_COUNT
            /\ \E a, b \in {Top.entryTail, (Top.entryTail + 1) % TX_DESC_COUNT} :
                 /\ a # b
                 /\ g_txBuffers'[a] = [data |-> Top.data, length |-> Top.length]
                 /\ g_txDescs'[a].BufferAddress = TxBufferPhys(a)
                 /\ g_txDescs'[a].Length = Top.length
                 /\ g_txBuffers'[b].data # "zero"
                 /\ g_txDescs'[b].BufferAddress = TxBufferPhys(b)
                 /\ g_txDescs'[b].Length = g_txBuffers'[b].length
    ]_vars

\* C19, the case alone in which the callback's send comes after the thread's
\* g_txTail update: the claim's conclusion holds there
C19_AfterTailUpdate ==
  [][ (CallbackSendInsideSend /\ stack[1].pc = "doorbell")
      => /\ op'.idx # stack[1].slot
         /\ g_txBuffers'[stack[1].slot] = g_txBuffers[stack[1].slot]
         /\ g_txDescs'[stack[1].slot] = g_txDescs[stack[1].slot]
    ]_vars


(* ---------------- the transmitter between TDH and TDT ---------------- *)
\* Callers send; the transmitter, treated fairly, works through the
\* descriptors from TDH up to but not including TDT.
NextTxStrict == Initialize \/ CallSendPacket \/ TxHwTransmit
SpecTxStrictFair == InitNominal /\ [][NextTxStrict]_vars /\ WF_vars(TxHwTransmit)

\* the frame in TX slot i was accepted and is not marked done
TxOutstanding(i) == g_txDescs # NullRing /\ TXSTA_DD \notin g_txDescs[i].Status
TxMarkedDone(i) == g_txDescs # NullRing /\ TXSTA_DD \in g_txDescs[i].Status

\* C20: with the transmitter working from TDH up to but not including TDT and
\* treated fairly, every frame accepted by SendPacket is eventually marked
\* done, also when 32 frames are accepted before any is completed.
C20_AcceptedEventuallyDone ==
  \A i \in 0..(TX_DESC_COUNT - 1) : TxOutstanding(i) ~> TxMarkedDone(i)

\* the state the claim names: 32 frames accepted, none completed, TDT wrapped
\* to TDH; the transmitter has nothing between TDH and TDT
TxRingWrapped ==
  /\ g_initialized /\ g_txPacketCount = TX_DESC_COUNT
  /\ regs.TDH = 0 /\ regs.TDT = 0 /\ g_txTail = 0
  /\ \A i \in 0..(TX_DESC_COUNT - 1) : TxOutstanding(i)

\* C20, the stall: once the ring has wrapped, it stays as it is: no send is
\* accepted and the transmitter completes nothing
C20_WrappedRingStalls == [][TxRingWrapped => TxRingWrapped']_vars


(* ---------------- the receiver against an undrained ring ---------------- *)
\* The receiver is offered more frames than the ring has slots; a caller
\* thread may drain with Poll.
NextRxFill == Initialize \/ RxHwReceive(MaxRingFrames) \/ CallPoll \/ RxDrainStep
SpecRxFill == InitNominal /\ [][NextRxFill]_vars

\* the driver is set up and has drained nothing yet
NothingDrained == g_initialized /\ stack = <<>> /\ g_rxPacketCount = 0 /\ g_rxTail = 31

\* the receiver has a descriptor to receive into
RxHwHasSlot == RCTL_EN \in regs.RCTL /\ regs.RDH # regs.RDT

InHwRange(i, head, tail) ==
  (i - head) % RX_DESC_COUNT < (tail - head) % RX_DESC_COUNT

\* the step is one of the running driver (not of a later Initialize call)
RxRunning == g_initialized /\ op'.name # "Initialize"

\* C22, first part: a descriptor that a write of RDT adds to the receiver's
\* range has its DD bit clear, and it is the one the drain has just finished
C22_HandedBackClear ==
  [][ (RxRunning /\ regs'.RDT # regs.RDT)
      => \A i \in 0..(RX_DESC_COUNT - 1) :
           (InHwRange(i, regs.RDH, regs'.RDT) /\ ~InHwRange(i, regs.RDH, regs.RDT))
             => ~RxDescDone(g_rxDescs'[i]) /\ op'.name = "RxFinish"
    ]_vars

\* C22, second part: the receiver never fills a descriptor whose DD bit is set
C22_NoOverwrite ==
  [][ (RxRunning /\ op'.name = "RxHwFill") => ~RxDescDone(g_rxDescs[op'.idx]) ]_vars

\* C22, third part: the tail never overtakes the head: a new value of g_rxTail
\* is never a slot of the receiver's range
C22_TailBehindHead ==
  [][ (RxRunning /\ g_rxTail' # g_rxTail) => ~InHwRange(g_rxTail', regs.RDH, regs.RDT) ]_vars

\* C22: with the receiver filling from RDH up to but not including RDT, every
\* descriptor an RDT write hands to the receiver has DD clear and has passed
\* through the drain, the receiver never overwrites a frame that is marked done
\* and not drained, and g_rxTail never overtakes RDH.
C22_RingOwnership ==
  [][ RxRunning
      => /\ regs'.RDT # regs.RDT
              => \A i \in 0..(RX_DESC_COUNT - 1) :
                   (InHwRange(i, regs.RDH, regs'.RDT) /\ ~InHwRange(i, regs.RDH, regs.RDT))
                     => ~RxDescDone(g_rxDescs'[i]) /\ op'.name = "RxFinish"
         /\ op'.name = "RxHwFill" => ~RxDescDone(g_rxDescs[op'.idx])
         /\ g_rxTail' # g_rxTail => ~InHwRange(g_rxTail', regs.RDH, regs.RDT)
    ]_vars

\* the indices oldTail+1 .. oldTail+k, in ring order
RunIndices(oldTail, k) == [i \in 1..k |-> (oldTail + i) % RX_DESC_COUNT]

\* What PollRx's loop makes of a ring with k done descriptors after the tail,
\* stated on the step at which the drain "Top" returns: the callback was
\* invoked for those k, in order, with their lengths, and for nothing else;
\* they are cleared; the tail and RDT stand at the last of them; the counter
\* has grown by k.
OutcomeOfPollRx ==
  LET f == Top
      last == (f.oldTail + f.k) % RX_DESC_COUNT
  IN  /\ g_rxTail' = last
      /\ f.k > 0 => regs'.RDT = last
      /\ g_rxPacketCount' = f.count0 + f.k
      /\ IF g_rxCallback # NoCallback
         THEN /\ f.calls = f.k /\ f.inOrder
              /\ delivered' = SubSeq(delivered', 1, f.seen) \o RunIndices(f.oldTail, f.k)
         ELSE Len(delivered') = f.seen
      /\ \A i \in 1..f.k :
           LET d == g_rxDescs'[(f.oldTail + i) % RX_DESC_COUNT]
           IN  d.Status = {} /\ d.Length = 0 /\ d.Errors = 0
      /\ ~RxDescDone(g_rxDescs'[(last + 1) % RX_DESC_COUNT])

\* the step is the return of a drain started from outside the driver (no other
\* drain active) during which the receiver completed nothing
OutermostDrainExit == DrainExit /\ Len(stack) = 1 /\ ~Top.hw

\* C23: from the same ring state with g_polling clear, a dispatch of
\* HandleInterrupt with the RX-timer cause and a Poll() call have the same
\* outcome: the callback invocations, the final descriptors, g_rxTail, RDT and
\* the RX counter are those of PollRx's loop, whichever of the two ran.
C23_DispatchEqualsPoll ==
  [][ OutermostDrainExit => OutcomeOfPollRx ]_vars

\* C23 for Poll() alone: the outcome used for the comparison is Poll's
C23_PollOutcome ==
  [][ (OutermostDrainExit /\ Top.fn = "PollRx") => OutcomeOfPollRx ]_vars

\* a drain of PollRx is running (possibly suspended under a callback)
PollDrainActive == \E i \in 1..Len(stack) : stack[i].fn = "PollRx"

\* C24: g_polling is set exactly while a drain of PollRx is running: it is
\* false whenever none is, after any sequence of Poll calls, the calls made
\* from the callback and the drains they start included.
C24_FlagTracksPollDrain == g_polling <=> PollDrainActive

\* C24, the consequence: a Poll() on an initialized driver made while no drain
\* of PollRx is running performs a drain
C24_NextPollDrains ==
  [][ (op'.name = "Poll" /\ g_initialized /\ ~PollDrainActive)
      => /\ op'.ret = "drain" /\ g_polling'
         /\ Len(stack') = Len(stack) + 1 /\ stack'[Len(stack')].fn = "PollRx"
    ]_vars

\* C24: g_polling is set only while a drain of PollRx runs and is cleared on
\* every return of it, so whenever no Poll call is active the flag is false
\* and the next Poll() on an initialized driver performs a drain.
C24_FlagClearedOnReturn == []C24_FlagTracksPollDrain /\ C24_NextPollDrains

\* C24 witness: a caller's Poll() is draining with the flag set; before it, a
\* Poll() made by the callback of an interrupt drain drained and returned
\* (descriptor 0 was passed to the callback twice)
C24_Witness ==
  /\ op.name = "Poll" /\ op.ctx = "top" /\ op.ret = "drain"
  /\ g_polling /\ Len(stack) = 1 /\ stack[1].fn = "PollRx"
  /\ Len(delivered) >= 2 /\ delivered[1] = 0 /\ delivered[2] = 0

\* C25: in Initialize the dispatch routine is registered and interrupt causes
\* are unmasked only when both rings are set up, and g_initialized is set only
\* after the interrupt strategy was chosen; so HandleInterrupt, which can be
\* dispatched from the registration on, never runs against a ring that is not
\* allocated.
C25_RingsBeforeInterrupts ==
  [][ /\ irqHandler' # irqHandler
         => RingsSetUp /\ op'.name = "Initialize" /\ op'.ret[1] = "IrqStrategy"
      /\ (regs'.IMS \ regs.IMS) # {}
         => RingsSetUp /\ op'.name = "Initialize" /\ op'.ret[1] = "IrqStrategy"
      /\ (g_initialized' /\ ~g_initialized)
         => /\ initPc = "Finish" /\ RingsSetUp
            /\ irqHandler # {} \/ g_pollingMode
      /\ op'.name = "HandleInterrupt" => RingsSetUp
    ]_vars

\* C25 witness: HandleInterrupt was dispatched after the registration and
\* before Initialize set g_initialized, and drains the ring SetupRx made
C25_Witness ==
  /\ initPc = "Finish" /\ ~g_initialized /\ irqHandler # {}
  /\ op.name = "HandleInterrupt"
  /\ Len(stack) = 1 /\ stack[1].fn = "HandleInterrupt"
  /\ RingsSetUp /\ ICR_RXT0 \in regs.IMS

\* the step is the choice of the interrupt strategy, with this outcome
StrategyStep(tier) ==
  op'.name = "Initialize" /\ op'.ret[1] = "IrqStrategy" /\ op'.ret[2] = tier

\* C26: when MSI or the legacy line is chosen, Initialize sets in the
\* interrupt mask exactly RXT0 (bit 7), TXDW (0), TXQE (1), LSC (2) and RXDMT0
\* (4); when polling is chosen it leaves the mask as the writes of 0xFFFFFFFF
\* to IMC left it, with every cause masked.  No other step of Initialize
\* unmasks a cause.
C26_UnmaskedCauses ==
  [][ /\ (StrategyStep("msi") \/ StrategyStep("legacy"))
         => regs.IMS = {} /\ regs'.IMS = {0, 1, 2, 4, 7}
      /\ StrategyStep("polling")
         => regs.IMS = {} /\ regs'.IMS = {} /\ regs'.IMC = 0..31
      /\ (op'.name = "Initialize" /\ op'.ret[1] # "IrqStrategy")
         => regs'.IMS \subseteq regs.IMS
      /\ (op'.name = "Initialize" /\ op'.ret[1] = "Finish")
         => regs'.IMS = IF g_pollingMode' THEN {} ELSE {0, 1, 2, 4, 7}
    ]_vars

\* C26 witness: initialized in polling mode on a device that came up with
\* every cause unmasked: now every cause is masked
C26_Witness ==
  /\ g_initialized /\ g_pollingMode /\ irqHandler = {}
  /\ dev.msi = "none" /\ dev.irqLine = NoIrqLine
  /\ regs.IMS = {} /\ regs.IMC = 0..31

\* the step is the entry of a dispatch of HandleInterrupt, up to its test of
\* the cause value
DispatchStep == op'.name = "HandleInterrupt" /\ op'.ctx = "irq"

\* C27: a dispatch that reads the interrupt-cause register as 0 changes
\* nothing of the driver, the rings or the device; a dispatch whose cause
\* value lacks the RX-timer bit (bit 7) leaves g_rxTail, RDT, every RX and TX
\* descriptor, g_txTail and both counters unchanged, starts no drain and
\* invokes no callback.
C27_DispatchWithoutRx ==
  [][ IF DispatchStep
      THEN /\ IF op'.ret = {}
              THEN UNCHANGED <<driverVars, rxVars, txVars, devVars, stack, delivered>>
              ELSE TRUE
           /\ IF ICR_RXT0 \in op'.ret
              THEN TRUE
              ELSE /\ g_rxTail' = g_rxTail /\ regs'.RDT = regs.RDT
                   /\ g_rxDescs' = g_rxDescs /\ g_txDescs' = g_txDescs
                   /\ g_txTail' = g_txTail /\ regs'.TDT = regs.TDT
                   /\ g_rxPacketCount' = g_rxPacketCount
                   /\ g_txPacketCount' = g_txPacketCount
                   /\ stack' = stack /\ delivered' = delivered
      ELSE TRUE
    ]_vars

\* C27 witness: a dispatch with only the TX-descriptor-written cause has
\* returned: a completed RX descriptor still waits after the tail, undrained
C27_Witness ==
  /\ op.name = "HandleInterrupt" /\ op.ctx = "irq" /\ op.ret = {ICR_TXDW}
  /\ g_initialized /\ stack = <<>> /\ g_rxCallback # NoCallback
  /\ RxDescDone(g_rxDescs[NextRxIdx(g_rxTail)])
  /\ g_rxPacketCount = 0 /\ delivered = <<>>


\* AcquireSwFwSync returns false in this step
AcquireReturnsFalse == acq.ret = "none" /\ acq'.ret = "false"

\* C28: when AcquireSwFwSync returns false the driver holds neither bit; when
\* it had obtained SMBI and the 2000 attempts at SWFLAG ran out, the return
\* comes with the write that clears SMBI, so SWSM reads SMBI clear after it;
\* a semaphore bit that is still set after a failing return is the firmware's.
C28_FailureHoldsNothing ==
  [][ AcquireReturnsFalse =>
        /\ ~acq'.smbi /\ ~acq'.swflag
        /\ acq.tries + 1 = SemaphoreCeiling
        /\ acq.smbi => (acq.stage = "swflag" /\ ~SemSet(regs', "smbi"))
        /\ \A stage \in SemStages : SemSet(regs', stage) => fw'[stage]
    ]_vars

\* C28 witness: SMBI was obtained, the firmware kept SWFLAG through all the
\* attempts, AcquireSwFwSync has returned false and SMBI reads clear
C28_Witness ==
  /\ initPc = "Reset" /\ acq.ret = "false" /\ acq.stage = "swflag"
  /\ op = InitOp("Acquire", "timeout")
  /\ fw.swflag /\ SemSet(regs, "swflag")
  /\ ~acq.smbi /\ ~SemSet(regs, "smbi")


\* the step is one register access of AcquireSwFwSync
AcquireStep == initPc = "Acquire" /\ op'.name = "Initialize"

\* the position of an access within one attempt: read, write, read-back
AccessRank(pc) == IF pc = "read" THEN 0 ELSE IF pc = "write" THEN 1 ELSE 2

\* the attempt counters stay below 2000
AcquireBounded ==
  /\ acq.tries \in 0..(SemaphoreCeiling - 1)
  /\ acq.stage = "swflag" => (acq.smbi \/ acq.ret = "false")
  /\ acq.swflag => (acq.smbi /\ acq.ret = "true")

\* every access moves AcquireSwFwSync forward: to its return, to the SWFLAG
\* stage, to the next attempt of the stage, or to the next access of the attempt
AcquireAdvances ==
  \/ acq'.pc = "done" /\ acq'.ret \in {"true", "false"} /\ initPc' = "Reset"
  \/ acq.stage = "smbi" /\ acq'.stage = "swflag" /\ acq'.tries = 0
  \/ acq'.stage = acq.stage /\ acq'.tries = acq.tries + 1 /\ acq'.pc = "read"
  \/ acq'.stage = acq.stage /\ acq'.tries = acq.tries
       /\ AccessRank(acq'.pc) > AccessRank(acq.pc)

\* C29: AcquireSwFwSync terminates: each stage makes at most 2000 attempts and
\* every register access moves it forward, whatever the registers read.  It
\* returns true only from a read-back that shows SWFLAG set, after a read-back
\* that showed SMBI set; when SMBI was not obtained it returns false from the
\* SMBI stage, having made no access to EXTCNF_CTRL.
C29_NextAcquire ==
  [][ /\ AcquireStep => (AcquireAdvances /\ acq.ret = "none")
      /\ (~acq.smbi /\ acq'.smbi)
           => (AcquireStep /\ acq.pc = "verify" /\ acq.stage = "smbi"
               /\ SemSet(regs, "smbi"))
      /\ (acq.ret = "none" /\ acq'.ret = "true")
           => (AcquireStep /\ acq.pc = "verify" /\ acq.stage = "swflag"
               /\ SemSet(regs, "swflag") /\ acq.smbi)
      /\ (acq.ret = "none" /\ acq'.ret = "false" /\ ~acq.smbi)
           => (acq.stage = "smbi" /\ acq'.stage = "smbi"
               /\ acq.tries + 1 = SemaphoreCeiling
               /\ regs'.EXTCNF_CTRL = regs.EXTCNF_CTRL)
      /\ (AcquireStep /\ acq.stage = "smbi")
           => regs'.EXTCNF_CTRL = regs.EXTCNF_CTRL
    ]_vars

C29_AcquireTerminates == []AcquireBounded /\ C29_NextAcquire

\* C29 witness: the firmware kept SMBI through 2000 attempts: AcquireSwFwSync
\* has returned false from the SMBI stage
C29_Witness ==
  /\ initPc = "Reset" /\ acq.ret = "false" /\ acq.stage = "smbi"
  /\ op = InitOp("Acquire", "timeout")
  /\ fw.smbi /\ SemSet(regs, "smbi") /\ ~acq.smbi /\ ~acq.swflag


\* every register but the named one keeps its value in the step
OnlyRegChanged(name) == \A k \in DOMAIN regs \ {name} : regs'[k] = regs[k]

\* C30: ReleaseSwFwSync first writes EXTCNF_CTRL with SWFLAG cleared and the
\* other bits as read, then SWSM with SMBI cleared and the other bits as read;
\* the two writes together are ReleaseSwFwSync.  Initialize reaches it once,
\* from the reset poll alone, whatever AcquireSwFwSync returned, and goes on
\* only through both writes, so both bits read clear after each of its writes
\* whether the driver held them or not.
C30_ReleaseUnconditional ==
  [][ /\ (initPc # "Release" /\ initPc' = "Release")
           => (initPc = "Reset" /\ op'.name = "Initialize"
               /\ acq.ret \in {"true", "false"})
      /\ (initPc = "Release" /\ initPc' # "Release")
           => /\ initPc' = "ReleaseSmbi"
              /\ regs'.EXTCNF_CTRL = regs.EXTCNF_CTRL \ {EXTCNF_CTRL_SWFLAG}
              /\ OnlyRegChanged("EXTCNF_CTRL")
              /\ SemWrite(regs', "smbi", FALSE) = ReleaseSwFwSync(regs)
      /\ (initPc # "ReleaseSmbi" /\ initPc' = "ReleaseSmbi") => initPc = "Release"
      /\ (initPc = "ReleaseSmbi" /\ initPc' # "ReleaseSmbi")
           => /\ initPc' = "DisableIrq2"
              /\ regs'.SWSM = regs.SWSM \ {SWSM_SMBI}
              /\ OnlyRegChanged("SWSM")
      /\ (initPc # "DisableIrq2" /\ initPc' = "DisableIrq2") => initPc = "ReleaseSmbi"
    ]_vars

\* C30 witness: AcquireSwFwSync returned false with the firmware holding
\* SWFLAG, and the first write of ReleaseSwFwSync has cleared the firmware's
\* bit; the other bits of the register are as they were
C30_Witness ==
  /\ initPc = "ReleaseSmbi" /\ op = InitOp("Release", "swflag")
  /\ acq.ret = "false" /\ ~acq.swflag
  /\ fw.swflag /\ ~SemSet(regs, "swflag")
  /\ ExtcnfOtherBits \subseteq regs.EXTCNF_CTRL /\ SWSM_SWESMBI \in regs.SWSM


\* the steps of Initialize from the first masking to the PHY bring-up
ResetSequence ==
  <<"DisableIrq", "Acquire", "Reset", "Release", "DisableIrq2", "LinkUp", "Phy">>

\* Initialize leaves the step `from` in this step
InitLeaves(from) == initPc = from /\ initPc' # from

\* the reset bit never clears within the 10,000 polls
ResetNeverClears == dev.rstClearsAt > ResetCeiling

\* C31: the reset sequence runs in this order and no step is skipped or
\* entered from elsewhere: mask all causes and read ICR; AcquireSwFwSync; set
\* CTRL.RST, delay, poll at most 10,000 times for the bit to clear;
\* ReleaseSwFwSync; mask all causes and read ICR again; link configuration.
\* The poll leaves CTRL.RST set exactly when it ran out, and the release, the
\* second masking and the link configuration follow also in that case.
C31_NextReset ==
  [][ /\ \A i \in 1..(Len(ResetSequence) - 1) :
           /\ InitLeaves(ResetSequence[i]) => initPc' = ResetSequence[i + 1]
           /\ (initPc' = ResetSequence[i + 1] /\ initPc # initPc')
                => initPc = ResetSequence[i]
      /\ (InitLeaves("DisableIrq") \/ InitLeaves("DisableIrq2"))
           => /\ regs'.IMC = AllBits /\ regs'.IMS = {}
              /\ regs'.ICRReads = regs.ICRReads + 1
              /\ regs'.CTRL = regs.CTRL
      /\ InitLeaves("DisableIrq") => (regs.ICRReads = 0 /\ CTRL_RST \notin regs.CTRL)
      /\ InitLeaves("Acquire") => (regs'.CTRL = regs.CTRL /\ regs'.ICRReads = 1)
      /\ InitLeaves("Reset")
           => /\ ResetDevice(regs, dev).polls <= ResetCeiling
              /\ ResetDevice(regs, dev).polls
                   = (IF ResetNeverClears THEN ResetCeiling ELSE dev.rstClearsAt)
              /\ (CTRL_RST \in regs'.CTRL) <=> ResetNeverClears
              /\ op' = InitOp("Reset", ~ResetNeverClears)
              /\ regs'.ICRReads = 1
      /\ InitLeaves("Release")
           => /\ regs' = ReleaseSwFwSync(regs)
              /\ ~SemSet(regs', "smbi") /\ ~SemSet(regs', "swflag")
              /\ regs'.ICRReads = 1
      /\ InitLeaves("DisableIrq2") => regs'.ICRReads = 2
      /\ InitLeaves("LinkUp")
           => (regs' = LinkUp(regs) /\ CTRL_SLU \in regs'.CTRL /\ regs'.ICRReads = 2)
    ]_vars

C31_ResetSequence ==
  C31_NextReset /\ ((initPc = "Reset" /\ ResetNeverClears) ~> (initPc = "Phy"))

\* C31 witness: the reset bit never cleared, and Initialize has released the
\* semaphore, masked the causes a second time and configured the link
C31_Witness ==
  /\ initPc = "Phy" /\ op = InitOp("LinkUp", "ok") /\ ResetNeverClears
  /\ CTRL_SLU \in regs.CTRL /\ regs.IMS = {} /\ regs.ICRReads = 2
  /\ ~SemSet(regs, "smbi") /\ ~SemSet(regs, "swflag")


\* slot i lies in the range the transmitter works on: from head up to but not
\* including tail
TxInRange(i, head, tail) == (i - head) % TX_DESC_COUNT < (tail - head) % TX_DESC_COUNT

\* descriptor i and its buffer are as a completed SendPacket leaves them
TxSlotWritten(descs, buffers, i) ==
  /\ buffers[i].data # "zero"
  /\ descs[i] = TxDescriptorFor(i, buffers[i].length)

\* the slots the step writes, descriptor or buffer
TxSlotsTouched ==
  { i \in 0..(TX_DESC_COUNT - 1) :
      g_txDescs'[i] # g_txDescs[i] \/ g_txBuffers'[i] # g_txBuffers[i] }

\* C32: the payload copy and the writes of the descriptor come before the write
\* of TDT, and the slot becomes visible to the transmitter by that write only:
\* every slot a write of TDT hands over is completely written, buffer and
\* descriptor, and SendPacket writes to no slot that lies in the range the
\* transmitter has been told, TDH up to TDT.
C32_PublishedSlotsComplete ==
  [][ g_initialized =>
        /\ \A i \in 0..(TX_DESC_COUNT - 1) :
             TxInRange(i, regs.TDT, regs'.TDT) => TxSlotWritten(g_txDescs', g_txBuffers', i)
        /\ op'.name = "SendPacket"
             => \A i \in TxSlotsTouched : ~TxInRange(i, regs.TDH, regs.TDT)
    ]_vars

\* C32, a SendPacket that no dispatch preempts: when it writes TDT the slot it
\* hands over is the one it wrote, and it holds the frame of the call
C32_UnpreemptedSendComplete ==
  [][ (SendAt("doorbell") /\ stack' = <<>> /\ nCbSent = Top.cbSent)
        => /\ regs'.TDT = NextTxTail(Top.slot) /\ regs.TDT = Top.slot
           /\ g_txBuffers'[Top.slot] = [data |-> Top.data, length |-> Top.length]
           /\ g_txDescs'[Top.slot] = TxDescriptorFor(Top.slot, Top.length)
    ]_vars


(* ---------------- a drain under a steady stream of frames ---------------- *)
\* The receiver keeps pace with the driver: while a drain loop is running it
\* completes the descriptor at RDH as soon as the loop has consumed the one
\* before it.  The frames are all of one length and are not counted.  No
\* callback is registered, so the loop is the code of the driver alone.
RxHwStream ==
  /\ RCTL_EN \in regs.RCTL
  /\ regs.RDH # regs.RDT
  /\ stack # <<>>
  /\ ~RxDescDone(g_rxDescs[NextRxIdx(g_rxTail)])
  /\ g_rxDescs' = [g_rxDescs EXCEPT ![regs.RDH] =
                     [@ EXCEPT !.Status = {RXSTA_DD, RXSTA_EOP}, !.Length = FrameLength(0)]]
  /\ regs' = [regs EXCEPT !.RDH = (@ + 1) % RX_DESC_COUNT]
  /\ stack' = [i \in 1..Len(stack) |-> [stack[i] EXCEPT !.hw = TRUE]]
  /\ op' = Op("RxHwFill", "hw", NullData, FrameLength(0), regs.RDH, "void")
  /\ UNCHANGED <<cfgVars, g_rxTail, txVars, g_rxPacketCount, g_txPacketCount,
                 g_rxCallback, g_polling, nSent, nCbSent, nFrames, lastDelivered,
                 dropped, delivered>>

NextRxStream == Initialize \/ CallPoll \/ Dispatch \/ RxDrainStep \/ RxHwStream
\* the processor goes on executing the drain loop it is in; nothing is assumed
\* of the receiver
SpecRxStreamFair == InitNominal /\ [][NextRxStream]_vars /\ WF_vars(RxDrainStep)

\* C33: every drain that Poll() or an interrupt dispatch starts returns, also
\* when the receiver keeps completing descriptors while the loop runs.
C33_DrainsTerminate == (stack # <<>>) ~> (stack = <<>>)


\* the step is a pass of a drain loop over a completed descriptor while no
\* callback is registered
DropStep == op'.name = "RxFinish" /\ op'.ret = "dropped"

\* C34: with no callback registered a drain consumes the completed descriptor
\* all the same: it counts the frame, clears the descriptor, moves g_rxTail
\* and RDT to it and goes on with the loop, and nothing is passed to a
\* callback.  What a callback is later given is a descriptor with DD set, which
\* the cleared one is not: the frame is lost.
C34_DroppedWithoutCallback ==
  [][ /\ DropStep
         => /\ g_rxCallback = NoCallback /\ stack # <<>> /\ Top.pc = "loop"
            /\ op'.idx = NextRxIdx(g_rxTail)
            /\ RxDescDone(g_rxDescs[op'.idx])
            /\ g_rxDescs'[op'.idx] = RxDescCleared(g_rxDescs[op'.idx])
            /\ ~RxDescDone(g_rxDescs'[op'.idx])
            /\ \A i \in 0..(RX_DESC_COUNT - 1) : i # op'.idx => g_rxDescs'[i] = g_rxDescs[i]
            /\ g_rxTail' = op'.idx /\ regs'.RDT = op'.idx
            /\ g_rxPacketCount' = g_rxPacketCount + 1
            /\ delivered' = delivered /\ stack' = stack
      /\ (stack # <<>> /\ Top.pc = "loop" /\ g_rxCallback = NoCallback
            /\ RxDescDone(g_rxDescs[NextRxIdx(g_rxTail)]) /\ stack' # stack)
           => (DropStep \/ op'.name = "RxHwFill")
      /\ op'.name = "Callback"
           => (g_rxCallback # NoCallback /\ RxDescDone(g_rxDescs[op'.idx]))
    ]_vars

\* C34 witness: a frame completed and was drained before SetRxCallback; the
\* callback is registered now, a Poll() has returned, and nothing was delivered
C34_Witness ==
  /\ g_rxCallback = OnFrameReceived /\ dropped /\ delivered = <<>>
  /\ op.name = "PollRx" /\ op.ctx = "return" /\ op.length = 0
  /\ stack = <<>> /\ nFrames = 1 /\ g_rxPacketCount = 1
  /\ g_rxTail = 0 /\ regs.RDT = 0 /\ ~RxDescDone(g_rxDescs[0])


\* the step belongs to an RX drain: its start, a pass of its loop, the call of
\* the callback, or its return
DrainStep ==
  \/ op'.name \in {"Callback", "RxFinish"}
  \/ op'.name \in {"Poll", "HandleInterrupt", "PollRx"}

DriverIdle == stack = <<>> /\ initPc = "idle"

\* C36: once both rings are set up, whenever no send and no drain is in
\* progress, g_rxTail is the value last written to RDT, g_txTail is the value
\* last written to TDT, and both lie in 0..31.
C36_TailsMatchDoorbells ==
  (RingsSetUp /\ DriverIdle)
    => /\ g_rxTail = regs.RDT /\ g_txTail = regs.TDT
       /\ g_rxTail \in 0..(RX_DESC_COUNT - 1) /\ g_txTail \in 0..(TX_DESC_COUNT - 1)

\* C36 witness: a SendPacket of the thread has returned, during which an
\* interrupt dispatch ran a drain and its callback had a send accepted
C36_Witness ==
  /\ RingsSetUp /\ DriverIdle
  /\ op.name = "SendPacket" /\ op.ctx = "top" /\ nSent = 2 /\ nCbSent = 1
  /\ g_txTail = 2 /\ regs.TDT = 2
  /\ g_rxPacketCount > 0 /\ g_rxTail = regs.RDT /\ g_rxTail # 31


\* every access to the PHY fails: MDIC never reports ready, or reports an error
PhyAccessFails == dev.mdicReadyAt > MdicCeiling \/ dev.mdicError

\* the step is InitPhy, called by Initialize
PhyBringUp == initPc = "Phy" /\ initPc' # "Phy"

\* C37: in InitPhy a PhyRead that times out or reports an error returns 0;
\* the reset wait takes that as the reset bit being clear and ends after that
\* one PhyRead; the advertisement registers are then written with 0 and the
\* advertised bits, and PHY_CONTROL with autonegotiation enable and restart,
\* as after a reset that completed.  In every case the wait makes between 1
\* and 100,000 PhyRead calls.
C37_PhyWaitOnFailedRead ==
  [][ PhyBringUp =>
        /\ op' = InitOp("Phy", InitPhy(phyRegs, dev).resetReads)
        /\ op'.ret[2] \in 1..PhyResetCeiling
        /\ initPc' = "Mac"
        /\ regs'.MDIC = [op |-> "write", reg |-> PHY_CONTROL, phy |-> 1,
                         data |-> {PHY_CTRL_AUTONEG_EN, PHY_CTRL_RESTART_AN}]
        /\ PhyAccessFails
             => /\ \A r \in DOMAIN phyRegs : PhyRead(r, phyRegs, dev).value = {}
                /\ op'.ret[2] = 1
                /\ InitPhy(phyRegs, dev).anar = {5, 6, 7, 8}
                /\ InitPhy(phyRegs, dev).gbcr = {8, 9}
                /\ phyRegs' = phyRegs
        /\ ~PhyAccessFails
             => /\ op'.ret[2] = (IF dev.phyResetClearsAt <= PhyResetCeiling
                                 THEN dev.phyResetClearsAt ELSE PhyResetCeiling)
                /\ phyRegs'[PHY_CONTROL] = {PHY_CTRL_AUTONEG_EN, PHY_CTRL_RESTART_AN}
    ]_vars

\* C37 witness: MDIC never reported ready; the reset wait of InitPhy ended
\* after one PhyRead and the autonegotiation restart was written
C37_Witness ==
  /\ initPc = "Mac" /\ op = InitOp("Phy", 1)
  /\ dev.mdicReadyAt > MdicCeiling /\ ~dev.mdicError
  /\ regs.MDIC.op = "write" /\ regs.MDIC.reg = PHY_CONTROL
  /\ regs.MDIC.data = {PHY_CTRL_AUTONEG_EN, PHY_CTRL_RESTART_AN}
  /\ phyRegs = ResetPhyRegs

====
